---- MODULE Spec2Model ----
(***************************************************************************)
(* A model of pkr's configuration composition: the merge utility of        *)
(* pkr/utils.py and the Kard meta computation of pkr/kard.py and           *)
(* pkr/environment.py.                                                     *)
(*                                                                         *)
(* Python dicts and lists are mutable objects reached through references,  *)
(* and merge() stores references to its source's lists into its            *)
(* destination, so the model keeps an explicit object store (heap): a      *)
(* sequence of objects, a reference being an index into it.                *)
(***************************************************************************)
EXTENDS Integers, Sequences, FiniteSets, TLC

(***************************************************************************)
(* Python values.  A value held in a variable, a dict entry or a list slot *)
(* is a record [k, v]: a scalar of kind "int", "bool", "str" or "none"     *)
(* with payload v, or a reference (kind "ref") to the heap object v.       *)
(***************************************************************************)
PyInt(n) == [k |-> "int", v |-> n]
PyBool(n) == [k |-> "bool", v |-> n]
PyStr(n) == [k |-> "str", v |-> n]
PyNone == [k |-> "none", v |-> 0]
Ref(a) == [k |-> "ref", v |-> a]

\* The keys that occur in the modelled mappings, in the order dict entries are kept.
KeySeq ==
  <<"a", "b", "default_features", "default_meta", "driver", "env", "features", "import", "j", "k",
    "name", "project_name", "real_kard_path", "src_path", "tag", "containers", "parent",
    "requires", "template", "c", "p">>

KeyIdx(key) == CHOOSE i \in 1..Len(KeySeq) : KeySeq[i] = key

\* A heap object: a dict (entries [key, val]) or a list (entries with key "").
EmptyDict == [k |-> "dict", items |-> <<>>]

ListObj(items) == [k |-> "list", items |-> items]

Item(key, val) == [key |-> key, val |-> val]

\* type(value): the kind of a scalar, or of the object a reference points to.
Kind(h, val) == IF val.k = "ref" THEN h[val.v].k ELSE val.k

\* key in d
DictHas(obj, key) == \E i \in 1..Len(obj.items) : obj.items[i].key = key

\* d[key]
DictGet(obj, key) ==
  LET i == CHOOSE j \in 1..Len(obj.items) : obj.items[j].key = key
  IN obj.items[i].val

\* d[key] = val, on the entries of a dict
ItemsSet(items, key, val) ==
  SelectSeq(items, LAMBDA e : KeyIdx(e.key) < KeyIdx(key))
    \o <<Item(key, val)>>
    \o SelectSeq(items, LAMBDA e : KeyIdx(e.key) > KeyIdx(key))

\* d.pop(key, None), on the entries of a dict
ItemsDel(items, key) == SelectSeq(items, LAMBDA e : e.key # key)

\* The heap after d[key] = val, d a reference to a dict.
SetKey(h, d, key, val) ==
  [h EXCEPT ![d.v] = [k |-> "dict", items |-> ItemsSet(h[d.v].items, key, val)]]

\* The heap after d.pop(key, None).
DelKey(h, d, key) ==
  [h EXCEPT ![d.v] = [k |-> "dict", items |-> ItemsDel(h[d.v].items, key)]]

\* A new object: the heap holding it and the reference to it.
Alloc(h, obj) == [h |-> Append(h, obj), v |-> Ref(Len(h) + 1)]

(***************************************************************************)
(* Plain values (trees without identity): [k, v, items], used for the      *)
(* documents read from YAML, for literals and to compare by value.         *)
(***************************************************************************)
PVInt(n) == [k |-> "int", v |-> n, items |-> <<>>]
PVBool(n) == [k |-> "bool", v |-> n, items |-> <<>>]
PVStr(n) == [k |-> "str", v |-> n, items |-> <<>>]
PVNone == [k |-> "none", v |-> 0, items |-> <<>>]
PVList(elems) ==
  [k |-> "list", v |-> 0, items |-> [i \in 1..Len(elems) |-> Item("", elems[i])]]
PVDict(items) == [k |-> "dict", v |-> 0, items |-> items]
PVEmpty == PVDict(<<>>)
\* A dict literal {key: val}, and d | {key: val}
PV1(key, val) == PVDict(<<Item(key, val)>>)
PVWith(d, key, val) == PVDict(ItemsSet(d.items, key, val))

\* No value: a key that a mapping lacks, a file that does not exist.
Absent == [k |-> "absent", v |-> 0, items |-> <<>>]

IsScalarKind(kind) == kind \in {"int", "bool", "str", "none"}

\* The value (by content) of what val denotes in heap h.
RECURSIVE Val(_, _)
Val(h, val) ==
  IF val.k = "ref"
  THEN [k |-> h[val.v].k, v |-> 0,
        items |-> [i \in 1..Len(h[val.v].items) |->
                     Item(h[val.v].items[i].key, Val(h, h[val.v].items[i].val))]]
  ELSE [k |-> val.k, v |-> val.v, items |-> <<>>]

\* Python's == on scalars: True == 1, and values of unrelated types differ.
ScalarEq(x, y) ==
  IF x.k \in {"int", "bool"} /\ y.k \in {"int", "bool"} THEN x.v = y.v
  ELSE x.k = y.k /\ x.v = y.v

\* Python's == on plain values.
RECURSIVE PVEq(_, _)
PVEq(x, y) ==
  IF IsScalarKind(x.k) /\ IsScalarKind(y.k) THEN ScalarEq(x, y)
  ELSE /\ x.k = y.k
       /\ Len(x.items) = Len(y.items)
       /\ \A i \in 1..Len(x.items) :
            /\ x.items[i].key = y.items[i].key
            /\ PVEq(x.items[i].val, y.items[i].val)

\* Fresh objects holding plain value pv: the heap and the value denoting them.
RECURSIVE Build(_, _)

\* The entries built so far and one more, key with the built value b.
BuildAppend(acc, key, b) == [h |-> b.h, items |-> Append(acc.items, Item(key, b.v))]

\* The entries of a plain list or mapping built from entry i on, after acc.
RECURSIVE BuildItems(_, _, _)
BuildItems(acc, items, i) ==
  IF i > Len(items) THEN acc
  ELSE BuildItems(BuildAppend(acc, items[i].key, Build(acc.h, items[i].val)), items, i + 1)

\* The new object of kind k holding the built entries.
BuildObj(k, acc) == Alloc(acc.h, [k |-> k, items |-> acc.items])

Build(h, pv) ==
  IF IsScalarKind(pv.k) THEN [h |-> h, v |-> [k |-> pv.k, v |-> pv.v]]
  ELSE BuildObj(pv.k, BuildItems([h |-> h, items |-> <<>>], pv.items, 1))

\* copy.deepcopy(val)
DeepCopy(h, val) == Build(h, Val(h, val))

(***************************************************************************)
(* merge(source, destination) of pkr/utils.py.  An operation on the heap   *)
(* yields [h |-> the heap after it, err |-> whether it raised].            *)
(***************************************************************************)
Ok(h) == [h |-> h, err |-> FALSE]
Raise(h) == [h |-> h, err |-> TRUE]

\* Whether dict.fromkeys raises TypeError: some element is a dict or a list.
Unhashable(items) == \E i \in 1..Len(items) : items[i].val.k = "ref"

\* list(items): no element is dropped.
FromKeysKeepAll(items) == items

\* list(dict.fromkeys(items)): the first occurrence of each element, in order.
RECURSIVE FirstOccurrences(_, _, _)
FirstOccurrences(items, i, seen) ==
  IF i > Len(items) THEN seen
  ELSE FirstOccurrences(items, i + 1,
                        IF \E j \in 1..Len(seen) : ScalarEq(seen[j].val, items[i].val)
                        THEN seen
                        ELSE Append(seen, items[i]))

FromKeys(items) == FirstOccurrences(items, 1, <<>>)

\* d[key] = a.v, a the allocation of a new object.
StoreNew(a, d, key) == Ok(SetKey(a.h, d, key, a.v))

\* destination[key] = list(dict.fromkeys(cat)), or cur.extend(value) when an element
\* of the concatenation cat is unhashable; cur is destination[key].
DedupOrExtend(h, d, key, cur, cat) ==
  IF Unhashable(cat)
  THEN Ok([h EXCEPT ![cur.v] = ListObj(cat)])
  ELSE StoreNew(Alloc(h, ListObj(FromKeys(cat))), d, key)

\* The list branch with the operands swapped: value + destination[key].
MergeListIntoSourceFirst(h, d, key, value) ==
  IF Kind(h, DictGet(h[d.v], key)) # "list"
  THEN Raise(h)
  ELSE DedupOrExtend(h, d, key, DictGet(h[d.v], key),
                     h[value.v].items \o h[DictGet(h[d.v], key).v].items)

\* The list branch when the key is in destination:
\*   destination[key] = list(dict.fromkeys(destination[key] + value))
\*   except TypeError: destination[key].extend(value)
MergeListInto(h, d, key, value) ==
  IF Kind(h, DictGet(h[d.v], key)) # "list"
  THEN Raise(h)    \* cur + value raises TypeError, then cur.extend does not exist
  ELSE DedupOrExtend(h, d, key, DictGet(h[d.v], key),
                     h[DictGet(h[d.v], key).v].items \o h[value.v].items)

\* The scalar branch that never overwrites a key of destination.
MergeScalarOverwriteOff(h, d, key, value, overwrite) ==
  IF DictHas(h[d.v], key) THEN Ok(h) ELSE Ok(SetKey(h, d, key, value))

\* The scalar branch: destination[key] = value (the overwrite flag of the callers
\* in kard.py and environment.py keeps a key the destination already has).
MergeScalar(h, d, key, value, overwrite) ==
  IF DictHas(h[d.v], key) /\ ~overwrite THEN Ok(h) ELSE Ok(SetKey(h, d, key, value))

MergeList(h, d, key, value) ==
  IF DictHas(h[d.v], key) THEN MergeListInto(h, d, key, value)
  ELSE Ok(SetKey(h, d, key, value))

RECURSIVE MergeItems(_, _, _, _, _)

\* node = destination.setdefault(key, {}) where destination lacks key, a the
\* allocation of the {}, and merge(value, node).
MergeIntoNew(a, key, value, d, overwrite) ==
  MergeItems(SetKey(a.h, d, key, a.v), a.h[value.v].items, a.v, 1, overwrite)

\* One turn of the loop of merge: the entry (key, value) of source into d.
MergeKey(h, key, value, d, overwrite) ==
  IF Kind(h, d) # "dict"
  THEN Raise(h)    \* setdefault, or item assignment, on what is no mapping
  ELSE CASE Kind(h, value) = "dict" ->
              IF DictHas(h[d.v], key)
              THEN MergeItems(h, h[value.v].items, DictGet(h[d.v], key), 1, overwrite)
              ELSE MergeIntoNew(Alloc(h, EmptyDict), key, value, d, overwrite)
         [] Kind(h, value) = "list" -> MergeList(h, d, key, value)
         [] OTHER -> MergeScalar(h, d, key, value, overwrite)

\* The entries after entry i, r what merging entry i gave.
MergeRest(r, items, d, i, overwrite) ==
  IF r.err THEN r ELSE MergeItems(r.h, items, d, i + 1, overwrite)

\* for key, value in list(source.items()), from entry i on.
MergeItems(h, items, d, i, overwrite) ==
  IF i > Len(items) THEN Ok(h)
  ELSE MergeRest(MergeKey(h, items[i].key, items[i].val, d, overwrite), items, d, i,
                 overwrite)

\* merge(source, destination, overwrite): source.items() raises on what is no dict.
MergeOW(h, source, destination, overwrite) ==
  IF Kind(h, source) # "dict" THEN Raise(h)
  ELSE MergeItems(h, h[source.v].items, destination, 1, overwrite)

\* merge with overwrite off by default.
merge_keeping(h, source, destination) == MergeOW(h, source, destination, FALSE)

\* merge(source, destination)
merge(h, source, destination) == MergeOW(h, source, destination, TRUE)

\* merge(source, destination, overwrite=False)
merge_no_overwrite(h, source, destination) == MergeOW(h, source, destination, FALSE)

(***************************************************************************)
(* diff(baseline, current) of pkr/utils.py: the sub-tree of current whose  *)
(* keys are absent from baseline or hold another value there.  The result  *)
(* is a new mapping; it holds current's own values, not copies of them.    *)
(***************************************************************************)
RECURSIVE DiffItems(_, _, _, _, _)

\* A key both hold, not as two mappings, goes to the result whatever its value.
DiffLeafAlways(h, old, key, value, out) == SetKey(h, out, key, value)

\* A key both hold, not as two mappings: it goes to the result when the values differ.
DiffLeaf(h, old, key, value, out) ==
  IF PVEq(Val(h, old), Val(h, value)) THEN h ELSE SetKey(h, out, key, value)

\* The nested diff sub, in heap h2, goes to the result unless it is empty.
DiffKeep(h2, sub, key, out) ==
  IF h2[sub.v].items = <<>> THEN h2 ELSE SetKey(h2, out, key, sub)

\* A key both hold as mappings: their diff, into a the allocation of a new mapping.
DiffNested(a, old, key, value, out) ==
  DiffKeep(DiffItems(a.h, old, a.h[value.v].items, a.v, 1), a.v, key, out)

\* The entry (key, value) of current against baseline base, into the result out.
DiffKey(h, base, key, value, out) ==
  IF ~DictHas(h[base.v], key) THEN SetKey(h, out, key, value)
  ELSE IF Kind(h, DictGet(h[base.v], key)) = "dict" /\ Kind(h, value) = "dict"
       THEN DiffNested(Alloc(h, EmptyDict), DictGet(h[base.v], key), key, value, out)
       ELSE DiffLeaf(h, DictGet(h[base.v], key), key, value, out)

\* for key, value in current.items(), from entry i on.
DiffItems(h, base, items, out, i) ==
  IF i > Len(items) THEN h
  ELSE DiffItems(DiffKey(h, base, items[i].key, items[i].val, out), base, items, out,
                 i + 1)

\* diff(baseline, current): the heap after it and the mapping it returns.
DiffInto(a, baseline, current) ==
  [h |-> DiffItems(a.h, baseline, a.h[current.v].items, a.v, 1), v |-> a.v]

diff(h, baseline, current) == DiffInto(Alloc(h, EmptyDict), baseline, current)

(***************************************************************************)
(* merge_lists, ask_input, ensure_key_present and ensure_definition_matches *)
(* of pkr/utils.py.                                                        *)
(***************************************************************************)
\* The elements of items that list others lacks.
Lacking(items, others) ==
  SelectSeq(items, LAMBDA e : \A j \in 1..Len(others) : ~ScalarEq(others[j].val, e.val))

\* merge_lists(src, dest, insert): dest becomes, in place, the two lists joined
\* without the repetitions of one in the other: src first (insert, the default),
\* then what it lacks of dest; or dest first, then what it lacks of src.
merge_lists(h, src, dest, insert) ==
  [h EXCEPT ![dest.v] =
     ListObj(IF insert
             THEN h[src.v].items \o Lacking(h[dest.v].items, h[src.v].items)
             ELSE h[dest.v].items \o Lacking(FromKeys(h[src.v].items), h[dest.v].items))]

\* The elements of items from the i-th on, split into the first occurrences (kept)
\* and the later ones (dups).
RECURSIVE DedupFrom(_, _, _, _)
DedupFrom(items, i, kept, dups) ==
  IF i > Len(items) THEN [kept |-> kept, dups |-> dups]
  ELSE IF \E j \in 1..Len(kept) : ScalarEq(kept[j].val, items[i].val)
  THEN DedupFrom(items, i + 1, kept, Append(dups, items[i].val))
  ELSE DedupFrom(items, i + 1, Append(kept, items[i]), dups)

DedupStore(h, lst, d) == [h |-> [h EXCEPT ![lst.v] = ListObj(d.kept)], dups |-> d.dups]

\* dedup_list(lst): [h, dups], every later occurrence of an element removed from lst
\* in place and returned, in order.
dedup_list(h, lst) == DedupStore(h, lst, DedupFrom(h[lst.v].items, 1, <<>>, <<>>))

\* The strings of the model, by their codes.
StrCompose == PyStr(1)
StrDocker == PyStr(2)
StrDev == PyStr(3)
StrExt == PyStr(4)
StrUser == PyStr(5)
StrAsked == PyStr(6)
StrTrue == PyStr(7)
StrFeatureF == PyStr(8)
StrFeatureG == PyStr(9)
StrEnvName == PyStr(10)
StrRelPath == PyStr(11)
StrFeatureE == PyStr(12)
StrImport == PyStr(13)

\* ask_input(name): what the user types at the prompt.
ask_input == StrAsked

\* The stand-ins of ensure_definition_matches for a missing level: data.get(k, {})
\* and defaults.get(k, []).
NoDict == [k |-> "nodict", v |-> 0]
NoList == [k |-> "nolist", v |-> 0]

\* key in c, for c a mapping or a stand-in; None when the test raises (c a number).
HasKey(h, c, key) ==
  CASE Kind(h, c) = "dict" -> PyBool(IF DictHas(h[c.v], key) THEN 1 ELSE 0)
    [] Kind(h, c) \in {"int", "bool", "none"} -> PyNone
    [] OTHER -> PyBool(0)

\* ensure_key_present(key, default, data): [h, err, v], v the value it returns.
ensure_key_present(h, key, default, data) ==
  LET inData == HasKey(h, data, key)
      inDefault == HasKey(h, default, key)
  IN IF inData = PyNone THEN [h |-> h, err |-> TRUE, v |-> PyNone]
     ELSE IF inData = PyBool(1)
     THEN [h |-> DelKey(h, data, key), err |-> FALSE, v |-> DictGet(h[data.v], key)]
     ELSE IF inDefault = PyNone THEN [h |-> h, err |-> TRUE, v |-> PyNone]
     ELSE IF inDefault = PyBool(1)
     THEN [h |-> DelKey(h, default, key), err |-> FALSE, v |-> DictGet(h[default.v], key)]
     ELSE [h |-> h, err |-> FALSE, v |-> ask_input]

\* A definition: a flat name, or a singleton mapping {key: [definitions]}.
DefFlat(key) == [key |-> key, nested |-> FALSE, sub |-> <<>>]
DefNested(key, sub) == [key |-> key, nested |-> TRUE, sub |-> sub]

\* c.get(key, instead): None when c has no get (a list, a scalar).
GetOr(h, c, key, instead) ==
  CASE Kind(h, c) = "dict" -> IF DictHas(h[c.v], key) THEN DictGet(h[c.v], key) ELSE instead
    [] Kind(h, c) = "nodict" -> instead
    [] OTHER -> PyNone

RECURSIVE EnsureElements(_, _, _, _, _, _)

\* values.update({key: val}) for element i, r what finding val gave, and the
\* elements after it.
EnsureRest(r, val, defs, defaults, data, i, out) ==
  IF r.err THEN Raise(r.h)
  ELSE EnsureElements(SetKey(r.h, out, defs[i].key, val), defs, defaults, data, i + 1, out)

\* Element i, a mapping {key: definitions}: the values of its definitions go into a
\* new mapping, allocated by a.
EnsureNested(a, defs, defaults, data, i, out) ==
  EnsureRest(EnsureElements(a.h, defs[i].sub, GetOr(a.h, defaults, defs[i].key, NoList),
                            GetOr(a.h, data, defs[i].key, NoDict), 1, a.v),
             a.v, defs, defaults, data, i, out)

\* Element i, a name: r is what ensure_key_present gave for it.
EnsureFlat(r, defs, defaults, data, i, out) ==
  EnsureRest(r, r.v, defs, defaults, data, i, out)

\* ensure_definition_matches for the definitions defs (a list), from element i on,
\* the values going into mapping out: [h, err].
EnsureElements(h, defs, defaults, data, i, out) ==
  IF i > Len(defs) THEN Ok(h)
  ELSE IF defs[i].nested
  THEN IF \/ GetOr(h, defaults, defs[i].key, NoList) = PyNone
          \/ GetOr(h, data, defs[i].key, NoDict) = PyNone
       THEN Raise(h)
       ELSE EnsureNested(Alloc(h, EmptyDict), defs, defaults, data, i, out)
  ELSE EnsureFlat(ensure_key_present(h, defs[i].key, defaults, data), defs, defaults,
                  data, i, out)

\* The values found, in the mapping v: [h, err, v].
EnsureResult(r, v) == [h |-> r.h, err |-> r.err, v |-> v]

\* The values of the definitions into a new mapping, allocated by a.
EnsureInto(a, definition, defaults, data) ==
  EnsureResult(EnsureElements(a.h, definition, defaults, data, 1, a.v), a.v)

\* ensure_definition_matches(definition, defaults, data): [h, err, v], v the mapping
\* of the values found.
ensure_definition_matches(h, definition, defaults, data) ==
  EnsureInto(Alloc(h, EmptyDict), definition, defaults, data)

(***************************************************************************)
(* Environment of pkr/environment.py.  The environment's file is a record  *)
(* [tree, required, imports, overlays]: tree the mapping of env.yml (keys  *)
(* import, default_meta and default_features, no deprecated top-level      *)
(* driver key), required the definitions of its required_meta, imports the *)
(* files its import key may name and overlays the files <feature>.yml,     *)
(* both sequences of [name, tree].  Every file an import names exists.     *)
(***************************************************************************)
HasFile(files, name) == \E i \in 1..Len(files) : files[i].name = name

FileOf(files, name) == files[CHOOSE i \in 1..Len(files) : files[i].name = name].tree

\* The warnings written for the duplicates dups: "Feature <feature> is duplicated in
\* <origin> <name>".
Warnings(dups, origin, name) ==
  [i \in 1..Len(dups) |-> [feature |-> dups[i], origin |-> origin, name |-> name]]

RECURSIVE load_env_file(_, _, _)
RECURSIVE LoadImports(_, _, _, _)

\* content = merge(content, imp_data): merge returns its destination, imp_data.
ImportMerged(m, imp_data, warn, files, names, i) ==
  LoadImports([h |-> m.h, err |-> m.err, v |-> imp_data, warn |-> warn], files, names, i + 1)

\* merge_lists(imp_features, content["default_features"]), dd what dedup_list gave:
\* the warnings of the import follow those of its loading.
ImportFeatures(dd, imp_features, c, d, files, names, i) ==
  ImportMerged(merge(merge_lists(dd.h, imp_features,
                                 DictGet(dd.h[c.v.v], "default_features"), TRUE),
                     c.v, d.v),
               d.v, c.warn \o d.warn \o Warnings(dd.dups, "import", names[i].val), files,
               names, i)

\* imp_data.pop("import", None); imp_features = imp_data.pop("default_features", []);
\* dedup_list(imp_features), d the import loaded.
ImportLoaded(d, c, files, names, i) ==
  IF d.err THEN [h |-> d.h, err |-> TRUE, v |-> c.v, warn |-> c.warn \o d.warn]
  ELSE ImportFeatures(dedup_list(DelKey(DelKey(d.h, d.v, "import"), d.v,
                                        "default_features"),
                                 DictGet(d.h[d.v.v], "default_features")),
                      DictGet(d.h[d.v.v], "default_features"), c, d, files, names, i)

\* for imp_name in content.get("import", ()), from the i-th name on; c is
\* [h, err, v, warn], v the content so far and warn the warnings written.
LoadImports(c, files, names, i) ==
  IF c.err \/ i > Len(names) THEN c
  ELSE ImportLoaded(load_env_file(c.h, FileOf(files, names[i].val), files), c, files,
                    names, i)

\* The loop over the imports of the mapping b read from the file.
LoadContent(b, files) ==
  LoadImports([h |-> b.h, err |-> FALSE, v |-> b.v, warn |-> <<>>], files,
              IF DictHas(b.h[b.v.v], "import")
              THEN b.h[DictGet(b.h[b.v.v], "import").v].items
              ELSE <<>>,
              1)

\* _load_env_file(path): [h, err, v, warn], v the mapping read, default_features
\* added when missing, merged into each of its imports in turn.
load_env_file(h, content, files) ==
  LoadContent(Build(h, IF "default_features"
                            \in {content.items[i].key : i \in 1..Len(content.items)}
                       THEN content
                       ELSE PVWith(content, "default_features", PVList(<<>>))),
              files)

RECURSIVE EnvironmentOverlays(_, _, _)

\* merge(content, self.env), m what it gave.
OverlayMerged(m, e, file, i) ==
  EnvironmentOverlays([e EXCEPT !.h = m.h, !.err = m.err], file, i + 1)

\* merge_lists(feature_features, self.features);
\* content["default_features"] = feature_features; merge(content, self.env)
OverlayFeatures(dd, feature_features, c, e, file, i) ==
  OverlayMerged(merge(SetKey(merge_lists(dd.h, feature_features, e.features, TRUE), c.v,
                             "default_features", feature_features),
                      c.v, e.env),
                [e EXCEPT !.warn = @ \o c.warn
                                     \o Warnings(dd.dups, "feature",
                                                 e.h[e.features.v].items[i].val)],
                file, i)

\* feature_features = content.pop("default_features", []);
\* dedup_list(feature_features), c the overlay loaded.
OverlayLoaded(c, e, file, i) ==
  IF c.err THEN [e EXCEPT !.h = c.h, !.err = TRUE, !.warn = @ \o c.warn]
  ELSE OverlayFeatures(dedup_list(DelKey(c.h, c.v, "default_features"),
                                  DictGet(c.h[c.v.v], "default_features")),
                       DictGet(c.h[c.v.v], "default_features"), c, e, file, i)

\* for feature in self.features, from the i-th element on of the list as it is by
\* then: a feature with a file <feature>.yml has it loaded and merged into self.env.
EnvironmentOverlays(e, file, i) ==
  IF e.err \/ i > Len(e.h[e.features.v].items) THEN e
  ELSE IF HasFile(file.overlays, e.h[e.features.v].items[i].val)
  THEN OverlayLoaded(load_env_file(e.h, FileOf(file.overlays,
                                                e.h[e.features.v].items[i].val),
                                   file.imports),
                     e, file, i)
  ELSE EnvironmentOverlays(e, file, i + 1)

\* merge_lists(self.env.get("default_features", []), self.features): the default
\* features go in front; dd is what dedup_list gave for them.
EnvironmentFeatures(dd, e, f, file) ==
  EnvironmentOverlays([h |-> merge_lists(dd.h, DictGet(dd.h[e.v.v], "default_features"),
                                         f, TRUE),
                       err |-> FALSE, env |-> e.v, features |-> f,
                       warn |-> e.warn \o Warnings(dd.dups, "env", PyNone)],
                      file, 1)

\* dedup_list(self.env.get("default_features", [])), f the list self.features.
EnvironmentDedup(e, f, file) ==
  EnvironmentFeatures(dedup_list(f.h, DictGet(f.h[e.v.v], "default_features")), e, f.v,
                      file)

\* self.features = features or []: an empty list given is replaced by a new one.
EnvironmentLoaded(e, features, file) ==
  IF e.err
  THEN [h |-> e.h, err |-> TRUE, env |-> e.v, features |-> features, warn |-> e.warn]
  ELSE EnvironmentDedup(e, IF e.h[features.v].items = <<>> THEN Alloc(e.h, ListObj(<<>>))
                           ELSE [h |-> e.h, v |-> features],
                        file)

\* Environment(env_name, features): [h, err, env, features, warn], env the loaded
\* mapping, features the caller's list with the default features and those of the
\* overlays put in front, warn the warnings written.
Environment(h, file, features) ==
  EnvironmentLoaded(load_env_file(h, file.tree, file.imports), features, file)

\* default.copy() where default = env.get("default_meta") or {}: a new mapping that
\* holds the values of default_meta themselves.
DefaultCopy(h, env) ==
  LET default == GetOr(h, env, "default_meta", PyNone)
  IN Alloc(h, IF Kind(h, default) = "dict" THEN h[default.v] ELSE EmptyDict)

\* ret["features"] = self.env.get("default_features", []); return ret, after
\* merge(required_values, extra) gave r.
EnvFeatures(r, ret, env) ==
  IF r.err THEN [h |-> r.h, err |-> TRUE, v |-> ret]
  ELSE [h |-> SetKey(r.h, ret, "features", DictGet(r.h[env.v], "default_features")),
        err |-> FALSE, v |-> ret]

\* merge(required_values, extra), after ensure_definition_matches gave r.
EnvRequiredValues(r, ret, env, extra) ==
  IF r.err THEN [h |-> r.h, err |-> TRUE, v |-> ret]
  ELSE EnvFeatures(merge(r.h, r.v, extra), ret, env)

\* required_values = ensure_definition_matches(...), after merge(extra, ret) gave r.
EnvRequired(r, ret, env, required, extra) ==
  IF r.err THEN [h |-> r.h, err |-> TRUE, v |-> ret]
  ELSE EnvRequiredValues(ensure_definition_matches(r.h, required, ret, extra), ret, env,
                         extra)

\* merge(extra, ret), ret the copy of the default_meta.
EnvMerged(ret, env, required, extra) ==
  EnvRequired(merge(ret.h, extra, ret.v), ret.v, env, required, extra)

\* Environment.get_meta(extra): [h, err, v], v the mapping it returns.
env_get_meta(h, env, required, extra) == EnvMerged(DefaultCopy(h, env), env, required, extra)

(***************************************************************************)
(* The drivers of pkr/driver: docker (DockerDriver) and compose            *)
(* (ComposeDriver, a ComposePkr and a DockerDriver).                       *)
(***************************************************************************)
\* str(value) of a scalar; the decimal writing of integer n has code 100 + n.
Str(val) ==
  CASE val.k = "str" -> val
    [] val.k = "int" -> PyStr(100 + val.v)
    [] val.k = "bool" -> PyStr(20 + val.v)
    [] OTHER -> PyStr(22)

\* self.metas: the keys a driver declares.
DriverMetas(name) == IF name = StrCompose THEN <<"project_name", "tag">> ELSE <<"tag">>

RECURSIVE DriverValues(_, _, _, _, _, _)

\* The declared keys from number i on, into mapping out: the value given in extras,
\* else the one meta already has, else the answer to a prompt, which extras receives.
DriverValues(h, keys, extras, meta, i, out) ==
  IF i > Len(keys) THEN h
  ELSE LET known == GetOr(h, extras, keys[i], GetOr(h, meta, keys[i], Absent))
           h1 == IF known = Absent THEN SetKey(h, extras, keys[i], ask_input) ELSE h
           value == IF known = Absent THEN ask_input ELSE known
       IN DriverValues(SetKey(h1, out, keys[i], value), keys, extras, meta, i + 1, out)

\* AbstractDriver.get_meta(extras, kard): [h, v], v the mapping of the declared keys.
base_get_meta(h, name, extras, meta) ==
  LET a == Alloc(h, EmptyDict)
  IN [h |-> DriverValues(a.h, DriverMetas(name), extras, meta, 1, a.v), v |-> a.v]

\* The paths of the model are strings: the absolute ones have a code from 200 on,
\* and pkr_path / p, resolved, has the code of p plus 200.
IsAbsolute(val) == val.v >= 200
Resolved(val) == PyStr(200 + val.v)
StrKardSrc == PyStr(298)
StrKardPath == PyStr(299)

\* if "tag" in extras: extras["tag"] = str(values["tag"]), b the values.
DockerTag(b, extras) ==
  IF DictHas(b.h[extras.v], "tag")
  THEN SetKey(b.h, extras, "tag", Str(DictGet(b.h[b.v.v], "tag")))
  ELSE b.h

\* kard.meta["real_kard_path"] = str(self.get_real_kard_path()), for compose.
ComposeKardPath(h, name, meta) ==
  IF name = StrCompose THEN SetKey(h, meta, "real_kard_path", StrKardPath) ELSE h

\* The two get_meta, around the values b of AbstractDriver.get_meta.
DriverGetMeta(b, name, extras, meta) ==
  [h |-> ComposeKardPath(DockerTag(b, extras), name, meta), v |-> b.v]

\* DockerDriver.get_meta, and ComposePkr.get_meta around it for compose: [h, v].
driver_get_meta(h, name, extras, meta) ==
  DriverGetMeta(base_get_meta(h, name, extras, meta), name, extras, meta)

\* self.meta.setdefault("driver", {}).setdefault("name", "compose") and load_driver:
\* [h, err, name], name the driver's name.
driver_name(h, meta) ==
  LET a == IF DictHas(h[meta.v], "driver")
           THEN [h |-> h, v |-> DictGet(h[meta.v], "driver")]
           ELSE LET n == Alloc(h, EmptyDict)
                IN [h |-> SetKey(n.h, meta, "driver", n.v), v |-> n.v]
      h1 == IF DictHas(a.h[a.v.v], "name") THEN a.h ELSE SetKey(a.h, a.v, "name", StrCompose)
  IN IF Kind(a.h, a.v) # "dict" THEN [h |-> a.h, err |-> TRUE, name |-> PyNone]
     ELSE LET name == DictGet(h1[a.v.v], "name")
          IN [h |-> h1, err |-> name \notin {StrCompose, StrDocker}, name |-> name]

(***************************************************************************)
(* The setup hook of an extension (pkr/ext): it is handed the Kard and     *)
(* changes kard.meta.  The one extension of the model goes with feature f. *)
(***************************************************************************)
\* The extension's setup, as a program hook = [op, key, val] on kard.meta:
\*   "set"        kard.meta[key] = val
\*   "setdefault" kard.meta.setdefault(key, val)
\*   "append"     kard.meta.setdefault(key, []).append(val)
\*   "none"       no change
setup(h, hook, meta) ==
  LET b == Build(h, hook.val)
      has == DictHas(h[meta.v], hook.key)
  IN CASE hook.op = "set" -> Ok(SetKey(b.h, meta, hook.key, b.v))
       [] hook.op = "setdefault" -> IF has THEN Ok(h) ELSE Ok(SetKey(b.h, meta, hook.key, b.v))
       [] hook.op = "append" ->
            IF ~has
            THEN LET a == Alloc(b.h, ListObj(<<Item("", b.v)>>))
                 IN Ok(SetKey(a.h, meta, hook.key, a.v))
            ELSE LET cur == DictGet(h[meta.v], hook.key)
                 IN IF Kind(h, cur) # "list" THEN Raise(h)
                    ELSE Ok([b.h EXCEPT ![cur.v] =
                               ListObj(Append(h[cur.v].items, Item("", b.v)))])
       [] OTHER -> Ok(h)

\* Extensions(self.meta["features"]).setup(...): the hooks of the extensions whose
\* feature is in the list.
extensions_setup(h, hook, meta) ==
  LET features == DictGet(h[meta.v], "features")
  IN IF \E i \in 1..Len(h[features.v].items) : h[features.v].items[i].val = StrFeatureF
     THEN setup(h, hook, meta)
     ELSE Ok(h)

\* The installed extensions that features names, in the order list_all() gave.
extensions_as_installed(h, features, installed) ==
  [i \in 1..Len(SelectSeq(installed,
                          LAMBDA n : \E j \in 1..Len(h[features.v].items) :
                                       h[features.v].items[j].val = n))
     |-> Item("", SelectSeq(installed,
                            LAMBDA n : \E j \in 1..Len(h[features.v].items) :
                                         h[features.v].items[j].val = n)[i])]

\* Extensions(features).extensions, installed the names list_all() gave, in its
\* order: {name: ... for name in self.features if name in self._extensions}, the
\* names of the mapping in the order of its keys.
extensions(h, features, installed) ==
  FromKeys(SelectSeq(h[features.v].items,
                     LAMBDA e : \E j \in 1..Len(installed) : installed[j] = e.val))

(***************************************************************************)
(* Kard of pkr/kard.py.                                                    *)
(***************************************************************************)
\* Kard._process_src_path()
process_src_path(h, meta) ==
  LET h1 == IF DictHas(h[meta.v], "src_path") THEN h
            ELSE SetKey(h, meta, "src_path", StrKardSrc)
      path == DictGet(h1[meta.v], "src_path")
  IN IF path.k # "str" THEN Raise(h1)
     ELSE IF IsAbsolute(path) THEN Ok(h1)
     ELSE Ok(SetKey(h1, meta, "src_path", Resolved(path)))

\* tpl_engine.process_string(s): the strings of the model hold no template
\* expression, and such a string renders as itself.
process_string(val) == val

RECURSIVE TemplateItems(_, _, _)

\* One element of a list: a string is processed, a mapping is templated in place, and
\* an element of another type is left out.
TemplateElement(acc, item) ==
  CASE Kind(acc.h, item.val) = "str" ->
         [h |-> acc.h, items |-> Append(acc.items, Item("", process_string(item.val)))]
    [] Kind(acc.h, item.val) = "dict" ->
         [h |-> TemplateItems(acc.h, item.val, 1), items |-> Append(acc.items, item)]
    [] OTHER -> acc

\* The elements from number i on, after the templated ones acc.
RECURSIVE TemplateListFrom(_, _, _)
TemplateListFrom(acc, items, i) ==
  IF i > Len(items) THEN acc
  ELSE TemplateListFrom(TemplateElement(acc, items[i]), items, i + 1)

\* The list branch of template_meta: [h, items], items the new list's elements.
TemplateList(h, items) == TemplateListFrom([h |-> h, items |-> <<>>], items, 1)

\* meta[key] = the new list, allocated by a, and the entries after entry i.
TemplateStore(a, meta, key, i) == TemplateItems(SetKey(a.h, meta, key, a.v), meta, i + 1)

\* The new list of the templated elements t.
TemplateListed(t, meta, key, i) == TemplateStore(Alloc(t.h, ListObj(t.items)), meta, key, i)

\* Kard.template_meta(meta): for key, value in meta.items(), from entry i on.
TemplateItems(h, meta, i) ==
  IF i > Len(h[meta.v].items) THEN h
  ELSE LET key == h[meta.v].items[i].key
           value == h[meta.v].items[i].val
       IN CASE Kind(h, value) = "dict" ->
                 TemplateItems(TemplateItems(h, value, 1), meta, i + 1)
            [] Kind(h, value) = "list" ->
                 TemplateListed(TemplateList(h, h[value.v].items), meta, key, i)
            [] Kind(h, value) = "str" ->
                 TemplateItems(SetKey(h, meta, key, process_string(value)), meta, i + 1)
            [] OTHER -> TemplateItems(h, meta, i + 1)

template_meta(h, meta) == TemplateItems(h, meta, 1)

\* The last merge of _compute_meta left out.
apply_extra_skipped(h, extra, meta) == Ok(h)

\* The last merge of _compute_meta: merge(extra, self.meta)
apply_extra(h, extra, meta) == merge(h, extra, meta)

\* The result of a computation that raised.
Failed(h) == [h |-> h, err |-> TRUE, meta |-> PyNone]

\* The steps of Kard._compute_meta(extra), the last first.  Each takes what the step
\* before it gave and x, the names of the computation: env the Environment's
\* mapping, required its required_meta, hook the extension's setup, extra the
\* argument, features the list popped from it and meta the new self.meta.

\* merge_lists(features, self.meta["features"], insert=False);
\* extra["features"] = features; return.
ComputeFeatures(r, x) ==
  IF r.err THEN Failed(r.h)
  ELSE [h |-> SetKey(merge_lists(r.h, x.features, DictGet(r.h[x.meta.v], "features"), FALSE),
                     x.extra, "features", x.features),
        err |-> FALSE, meta |-> x.meta]

\* self._process_src_path(), the second.
ComputeSrcPathAgain(r, x) ==
  IF r.err THEN Failed(r.h) ELSE ComputeFeatures(process_src_path(r.h, x.meta), x)

\* merge(extra, self.meta)
ComputeApplyExtra(r, x) ==
  IF r.err THEN Failed(r.h) ELSE ComputeSrcPathAgain(apply_extra(r.h, x.extra, x.meta), x)

\* merge(diff(...), extra, overwrite=False), c the diff.
ComputeMergeDiff(c, x) == ComputeApplyExtra(merge_no_overwrite(c.h, c.v, x.extra), x)

\* diff(overall_context, self.meta)
ComputeDiff(r, overall_context, x) ==
  IF r.err THEN Failed(r.h) ELSE ComputeMergeDiff(diff(r.h, overall_context, x.meta), x)

\* self.extensions.setup(copy.deepcopy(extra), self), oc the copy overall_context.
ComputeSetup(oc, x) == ComputeDiff(extensions_setup(oc.h, x.hook, x.meta), oc.v, x)

\* overall_context = copy.deepcopy(self.meta)
ComputeContext(r, x) ==
  IF r.err THEN Failed(r.h) ELSE ComputeSetup(DeepCopy(r.h, x.meta), x)

\* self._process_src_path(), the first.
ComputeSrcPath(r, x) ==
  IF r.err THEN Failed(r.h) ELSE ComputeContext(process_src_path(r.h, x.meta), x)

\* merge(self.driver.get_meta(extra, self), self.meta), d the driver's values.
ComputeMergeDriver(d, x) == ComputeSrcPath(merge(d.h, d.v, x.meta), x)

\* self.driver.get_meta(extra, self), n the loaded driver.
ComputeDriverMeta(n, x) ==
  IF n.err THEN Failed(n.h)
  ELSE ComputeMergeDriver(driver_get_meta(n.h, n.name, x.extra, x.meta), x)

\* The default of the driver's name and load_driver.
ComputeDriver(r, x) ==
  IF r.err THEN Failed(r.h) ELSE ComputeDriverMeta(driver_name(r.h, x.meta), x)

\* merge(self.env.get_meta(extra), self.meta), g what get_meta gave.
ComputeMergeEnv(g, x) ==
  IF g.err THEN Failed(g.h) ELSE ComputeDriver(merge(g.h, g.v, x.meta), x)

\* self.env.get_meta(extra), m the copy of extra that is the new self.meta.
ComputeEnv(m, f, env, required, hook, extra) ==
  ComputeMergeEnv(env_get_meta(m.h, env, required, extra),
                  [env |-> env, required |-> required, hook |-> hook, extra |-> extra,
                   features |-> f.v, meta |-> m.v])

\* self.meta = copy.deepcopy(extra), f the features popped.
ComputeCopy(f, env, required, hook, extra) ==
  ComputeEnv(DeepCopy(f.h, extra), f, env, required, hook, extra)

\* Kard._compute_meta(extra): [h, err, meta], meta the new self.meta.  env is the
\* Environment's mapping, required its required_meta, hook the extension's setup.
compute_meta(h, env, required, hook, extra) ==
  ComputeCopy(IF DictHas(h[extra.v], "features")
              THEN [h |-> DelKey(h, extra, "features"), v |-> DictGet(h[extra.v], "features")]
              ELSE Alloc(h, ListObj(<<>>)),
              env, required, hook, extra)

\* The fields of the Kard object.
KardObject(clean, c, e) ==
  [clean_meta |-> clean, meta |-> c.meta, env |-> e.env, features |-> e.features]

\* self.template_meta(self.meta), c what _compute_meta gave.
KardTemplate(c, clean, e) ==
  IF c.err
  THEN [h |-> c.h, err |-> TRUE, kard |-> KardObject(clean, c, e), computed |-> PVNone,
        warn |-> e.warn]
  ELSE [h |-> template_meta(c.h, c.meta), err |-> FALSE, kard |-> KardObject(clean, c, e),
        computed |-> Val(c.h, c.meta), warn |-> e.warn]

\* self._compute_meta(self.clean_meta), e the Environment.
KardCompute(e, clean, envfile, hook) ==
  IF e.err
  THEN [h |-> e.h, err |-> TRUE, kard |-> PyNone, computed |-> PVNone, warn |-> e.warn]
  ELSE KardTemplate(compute_meta(e.h, e.env, envfile.required, hook, clean), clean, e)

\* self.env = Environment(...), f the copy of the features of clean_meta.
KardEnvironment(f, clean, envfile, hook) ==
  KardCompute(Environment(f.h, envfile, f.v), clean, envfile, hook)

\* Kard(name, path, meta) where the Environment is handed the list
\* self.clean_meta["features"] itself.
kard_init_shared(h, clean, envfile, hook) ==
  KardEnvironment([h |-> h, v |-> DictGet(h[clean.v], "features")], clean, envfile, hook)

\* Kard(name, path, meta), after self.clean_meta is set to mapping clean:
\* [h, err, kard, computed, warn], kard the object's fields, computed the value of
\* self.meta when _compute_meta returns and warn the warnings written.  envfile is
\* the environment's file.
kard_init(h, clean, envfile, hook) ==
  KardEnvironment(Alloc(h, ListObj(h[DictGet(h[clean.v], "features").v].items)), clean,
                  envfile, hook)

\* The sanitizing of Kard.create: a string "true" becomes the boolean (the strings of
\* the model hold no "false" and the keys no dot).
Sanitize(extras) ==
  PVDict([i \in 1..Len(extras.items) |->
            IF extras.items[i].val = PVStr(StrTrue.v)
            THEN Item(extras.items[i].key, PVBool(1))
            ELSE extras.items[i]])

\* extras["driver"] = d.v, d the new mapping {"name": driver}.
CreateSetDriver(d, extras) == SetKey(d.h, extras, "driver", d.v)

\* extras.setdefault("driver", {})["name"] = driver; extras["env"] = env
CreateDriver(h, extras, driver, warn) ==
  [h |-> SetKey(IF driver = PyNone THEN h
                ELSE CreateSetDriver(Build(h, PV1("name", [k |-> driver.k, v |-> driver.v,
                                                           items |-> <<>>])),
                                     extras),
                extras, "env", StrEnvName),
   v |-> extras, warn |-> warn]

\* merge_lists(extra_features, extras["features"], insert=False), dd what
\* dedup_list(extra_features) gave.
CreateMergeFeatures(dd, extra_features, extras, driver, warn) ==
  CreateDriver(merge_lists(dd.h, extra_features, DictGet(dd.h[extras.v], "features"),
                           FALSE),
               extras, driver, warn \o Warnings(dd.dups, "args", PyNone))

\* dedup_list(extra_features), f the list features.split(",").
CreateArgs(f, extras, driver, warn) ==
  CreateMergeFeatures(dedup_list(f.h, f.v), f.v, extras, driver, warn)

\* extra_features = features.split(","), dd what dedup_list(extras["features"]) gave.
CreateFeatures(dd, extras, features, driver) ==
  CreateArgs(Build(dd.h, features), extras, driver,
             Warnings(dd.dups, "passed meta", PyNone))

\* dedup_list(extras["features"]), b the mapping extras.
CreateMeta(b, features, driver) ==
  CreateFeatures(dedup_list(b.h, DictGet(b.h[b.v.v], "features")), b.v, features, driver)

\* Kard.create up to the call of the constructor: the mapping extras, from the
\* metas given (extra: those of the meta file updated with the extra ones), the
\* features given (a list) and the driver's name (or None).  [h, v, warn]
create_extras(h, extra, features, driver) ==
  CreateMeta(Build(h, Sanitize(IF "features"
                                    \in {extra.items[i].key : i \in 1..Len(extra.items)}
                               THEN extra
                               ELSE PVWith(extra, "features", PVList(<<>>)))),
             features, driver)

(***************************************************************************)
(* The file system.  A path is the sequence of its components; a disk maps *)
(* each path that exists to its node, a directory or a file with its body. *)
(* The body of a file is its text and, in ctx, the context its             *)
(* placeholders were filled from, 0 while they are not filled.             *)
(***************************************************************************)
DirNode == [k |-> "dir", text |-> "", ctx |-> 0]
FileNode(text) == [k |-> "file", text |-> text, ctx |-> 0]

Exists(d, p) == p \in DOMAIN d
is_file(d, p) == Exists(d, p) /\ d[p].k = "file"
is_dir(d, p) == Exists(d, p) /\ d[p].k = "dir"

\* Whether path p lies under path q, q excluded.
Under(p, q) == Len(p) > Len(q) /\ SubSeq(p, 1, Len(q)) = q

\* path.parent and path.name
Parent(p) == SubSeq(p, 1, Len(p) - 1)
Name(p) == p[Len(p)]

\* path.relative_to(origin), for a path at or under origin
relative_to(p, origin) == SubSeq(p, Len(origin) + 1, Len(p))

\* The disk with node n at path p.
Put(d, p, n) == [q \in DOMAIN d \cup {p} |-> IF q = p THEN n ELSE d[q]]

\* shutil.rmtree(p)
rmtree(d, p) == [q \in {x \in DOMAIN d : x # p /\ ~Under(x, p)} |-> d[q]]

\* The names a directory may hold, in the order the system lists them.
NameSeq == <<"a", "a.template", "b", "old", "out", "sub", "tpl", "ctx", "run">>

\* name.endswith('.template'), and Path.stem
EndsTemplate(name) == name = "a.template"
Stem(name) == IF name = "a.template" THEN "a" ELSE name

\* TemplateEngine.remove_ext
remove_ext(p) == Parent(p) \o <<Stem(Name(p))>>

\* path.iterdir(): the children of directory p, as the system lists them.
iterdir(d, p) ==
  SelectSeq([i \in 1..Len(NameSeq) |-> p \o <<NameSeq[i]>>], LAMBDA c : Exists(d, c))

\* path.mkdir(parents=True, exist_ok=True): the error when a file is in the way.
MkdirBlocked(d, p) == \E i \in 1..Len(p) : is_file(d, SubSeq(p, 1, i))
Mkdirs(d, p) ==
  [q \in DOMAIN d \cup {SubSeq(p, 1, i) : i \in 1..Len(p)} |->
     IF q \in DOMAIN d THEN d[q] ELSE DirNode]

(***************************************************************************)
(* Patterns.  A path of an instruction may end in a wildcard component:    *)
(* star is "" for none, "*" or "*.template".  An exclusion written with    *)
(* $KARD_PATH or $SRC_PATH has var set.                                    *)
(***************************************************************************)
PathOf(names) == [names |-> names, star |-> ""]
Glob(names, star) == [names |-> names, star |-> star]
Exclude(names, star, var) == [names |-> names, star |-> star, var |-> var]

\* fnmatch(str(path), str(pattern)): '*' matches any characters, '/' included.
fnmatch(p, e) ==
  CASE e.star = "" -> p = e.names
    [] e.star = "*" -> Under(p, e.names)
    [] OTHER -> Under(p, e.names) /\ EndsTemplate(Name(p))

\* glob(str(pattern)): '*' matches within one component.
glob(d, e) ==
  SelectSeq(iterdir(d, e.names), LAMBDA c : e.star = "*" \/ EndsTemplate(Name(c)))

\* Kard.replace_var: a string when the path holds a variable, else a Path.
replace_var(e) == [names |-> e.names, star |-> e.star, str |-> e.var]

(***************************************************************************)
(* TemplateEngine.  An engine state r is [d, err, written, ctx]: the disk, *)
(* the error raised ("" for none), the files written as [src, dst], and    *)
(* the tpl_context.                                                        *)
(***************************************************************************)
Engine(d, ctx) == [d |-> d, err |-> "", written |-> {}, ctx |-> ctx]

CopyFailed(r, e) == [r EXCEPT !.err = e]

\* process_template: the text of the template, its placeholders filled.
process_template(body, ctx) == [k |-> "file", text |-> body.text, ctx |-> ctx]

\* open(dst, 'w'): the file dst now holds body.
CopyWrite(r, path, dst, body) ==
  IF is_dir(r.d, dst) THEN CopyFailed(r, "IsADirectoryError")
  ELSE [r EXCEPT !.d = Put(r.d, dst, body),
                 !.written = r.written \cup {[src |-> path, dst |-> dst]}]

\* The branch of a template: its destination loses the suffix.
copy_template(r, path, dst_path) ==
  IF ~is_dir(r.d, dst_path)
    THEN CopyWrite(r, path,
                   IF EndsTemplate(Name(dst_path)) THEN remove_ext(dst_path) ELSE dst_path,
                   process_template(r.d[path], r.ctx))
    \* remove_ext(path.name): a str has no parent
    ELSE CopyFailed(r, "AttributeError")

\* shutil.copy2: into the directory when the destination is one.
copy2(r, path, dst_path) ==
  CopyWrite(r, path,
            IF is_dir(r.d, dst_path) THEN dst_path \o <<Name(path)>> ELSE dst_path,
            r.d[path])

\* dst_path.parent.mkdir(parents=True, exist_ok=True), then the file.
CopyInto(r, path, dst_path, gen_template) ==
  IF MkdirBlocked(r.d, Parent(dst_path)) THEN CopyFailed(r, "FileExistsError")
  ELSE IF gen_template /\ EndsTemplate(Name(path))
    THEN copy_template([r EXCEPT !.d = Mkdirs(r.d, Parent(dst_path))], path, dst_path)
    ELSE copy2([r EXCEPT !.d = Mkdirs(r.d, Parent(dst_path))], path, dst_path)

\* The branch of a regular file.
copy_file(r, path, origin, local_dst, excluded_paths, gen_template) ==
  IF \E i \in 1..Len(excluded_paths) :
       /\ ~excluded_paths[i].str
       /\ excluded_paths[i].star = ""
       /\ excluded_paths[i].names = path
    THEN r
  ELSE IF origin.star = "" /\ path = origin.names
    THEN CopyInto(r, path, local_dst, gen_template)
  ELSE IF origin.star = "" /\ Under(path, origin.names)
    THEN CopyInto(r, path, local_dst \o relative_to(path, origin.names), gen_template)
  \* path.relative_to(origin) of a path that is not under origin
  ELSE CopyFailed(r, "ValueError")

RECURSIVE copy(_, _, _, _, _, _)
RECURSIVE CopyGlob(_, _, _, _, _, _, _)
RECURSIVE CopyDir(_, _, _, _, _, _, _)

\* The loop over glob's list: each path is copied with itself as its origin.
CopyGlob(r, file_list, i, origin, local_dst, excluded_paths, gen_template) ==
  IF i > Len(file_list) \/ r.err # "" THEN r
  ELSE IF ~Under(file_list[i], origin)
    THEN CopyFailed(r, "ValueError")
  ELSE CopyGlob(copy(r, PathOf(file_list[i]), PathOf(file_list[i]),
                     local_dst \o relative_to(file_list[i], origin),
                     excluded_paths, gen_template),
                file_list, i + 1, origin, local_dst, excluded_paths, gen_template)

\* The loop over a directory: a child an exclusion pattern matches is skipped.
CopyDir(r, children, i, origin, local_dst, excluded_paths, gen_template) ==
  IF i > Len(children) \/ r.err # "" THEN r
  ELSE CopyDir(IF \E j \in 1..Len(excluded_paths) : fnmatch(children[i], excluded_paths[j])
                 THEN r
                 ELSE copy(r, PathOf(children[i]), origin, local_dst,
                           excluded_paths, gen_template),
               children, i + 1, origin, local_dst, excluded_paths, gen_template)

\* TemplateEngine.copy
copy(r, path, origin, local_dst, excluded_paths, gen_template) ==
  IF r.err # "" THEN r
  ELSE IF path.star # ""
    \* origin.parent when the wildcard is in origin's name: the names before it
    THEN CopyGlob(r, glob(r.d, path), 1, origin.names,
                  local_dst, excluded_paths, gen_template)
  ELSE IF is_file(r.d, path.names)
    THEN copy_file(r, path.names, origin, local_dst, excluded_paths, gen_template)
  ELSE IF is_dir(r.d, path.names)
    THEN CopyDir(r, iterdir(r.d, path.names), 1, origin, local_dst,
                 excluded_paths, gen_template)
  \* path.iterdir() of a path that does not exist
  ELSE CopyFailed(r, "FileNotFoundError")

(***************************************************************************)
(* The driver's render instructions.  A container is [build, run], each    *)
(* the configurations given (none or one): [subfolder, requires,           *)
(* dockerfile], a requirement [src, dst, exclude, template].               *)
(***************************************************************************)
pkr_path == <<"pkr">>
kard_path == <<"kard">>
templates_path == pkr_path \o <<"tpl">>

\* f"{dockerfile}.template"
WithTemplate(dockerfile) == IF dockerfile = "a" THEN "a.template" ELSE dockerfile

\* The instructions of the requirements of a configuration.
RequiresTemplates(cfg) ==
  {[source |-> cfg.requires[i].src,
    origin |-> cfg.requires[i].src,
    destination |-> cfg.requires[i].dst,
    subfolder |-> cfg.subfolder,
    excluded_paths |-> cfg.requires[i].exclude,
    gen_template |-> cfg.requires[i].template] : i \in 1..Len(cfg.requires)}

\* The two instructions of a dockerfile, with the suffix and without.
DockerfileTemplates(cfg) ==
  IF cfg.dockerfile = "" THEN {}
  ELSE {[source |-> PathOf(templates_path
                            \o <<IF tpl THEN WithTemplate(cfg.dockerfile) ELSE cfg.dockerfile>>),
         origin |-> PathOf(templates_path),
         destination |-> <<>>,
         subfolder |-> cfg.subfolder,
         excluded_paths |-> <<>>,
         gen_template |-> tpl] : tpl \in BOOLEAN}

\* Docker.get_templates: the set of the instructions.
get_templates(container) ==
  UNION ({RequiresTemplates(container.build[i]) \cup DockerfileTemplates(container.build[i])
            : i \in 1..Len(container.build)}
         \cup {RequiresTemplates(container.run[i]) : i \in 1..Len(container.run)})

\* list(templates): the orders a set may be listed in.
Listings(S) ==
  {l \in [1..Cardinality(S) -> S] : \A i, j \in 1..Cardinality(S) : l[i] = l[j] => i = j}

(***************************************************************************)
(* Kard.make                                                               *)
(***************************************************************************)
\* The subfolders of the instructions, each once, in their order.
Subfolders(order) ==
  SelectSeq([i \in 1..Len(order) |-> [name |-> order[i].subfolder, first |-> \A j \in 1..(i - 1) : order[j].subfolder # order[i].subfolder]],
            LAMBDA s : s.first)

\* A make that keeps what a subfolder holds, whatever reset is.
ResetFolder_keeping(d, folder, reset) ==
  IF Exists(d, folder) THEN d ELSE Put(d, folder, DirNode)

\* One subfolder is removed when reset is set, then created if it is not there.
ResetFolder(d, folder, reset) ==
  IF reset /\ Exists(d, folder) THEN Put(rmtree(d, folder), folder, DirNode)
  ELSE IF Exists(d, folder) THEN d
  ELSE Put(d, folder, DirNode)

RECURSIVE MakeFolders(_, _, _, _)
MakeFolders(d, subfolders, i, reset) ==
  IF i > Len(subfolders) THEN d
  ELSE MakeFolders(ResetFolder(d, kard_path \o <<subfolders[i].name>>, reset),
                   subfolders, i + 1, reset)

\* tpl_engine.copy of one instruction.
MakeCopyOne(r, template) ==
  copy(r, template.source, template.origin,
       kard_path \o <<template.subfolder>> \o template.destination,
       [i \in 1..Len(template.excluded_paths) |-> replace_var(template.excluded_paths[i])],
       template.gen_template)

\* The loop over the instructions; m is [d, err, log], log the files written
\* as [by, src, dst], by the instruction that wrote dst from src.
RECURSIVE MakeCopy(_, _, _, _)
MakeCopied(m, r, order, i, ctx) ==
  MakeCopy([d |-> r.d, err |-> r.err,
            log |-> m.log \cup {[by |-> order[i], src |-> w.src, dst |-> w.dst]
                                  : w \in r.written}],
           order, i + 1, ctx)

MakeCopy(m, order, i, ctx) ==
  IF i > Len(order) \/ m.err # "" THEN m
  ELSE MakeCopied(m, MakeCopyOne(Engine(m.d, ctx), order[i]), order, i, ctx)

\* Kard.make(reset), the driver's instructions listed in this order.
make(d, order, reset, ctx) ==
  MakeCopy([d |-> MakeFolders(d, Subfolders(order), 1, reset), err |-> "", log |-> {}],
           order, 1, ctx)

(***************************************************************************)
(* The dispatch of a hook to the extensions (pkr/ext/__init__.py).  An     *)
(* extension is [name, named, hook], named whether the object has an       *)
(* attribute name; its hook is [impl, decorated, outcome]: impl *)
(* "none" for a module without an extension class, "base" for a class that *)
(* inherits the hook of ExtMixin, "own" for one that implements it;        *)
(* decorated whether the hook is wrapped by timeout; outcome what its body *)
(* does: "returns", "slow" (it runs beyond the timeout's duration) or the  *)
(* exception it raises.  A dispatch state d is [calls, outputs, err,       *)
(* alarm, log]: the hooks called, what the hooks returned, the exception   *)
(* raised ("" for none), the alarm, and the messages written.              *)
(***************************************************************************)
Hook(impl, decorated, outcome) == [impl |-> impl, decorated |-> decorated, outcome |-> outcome]

\* The body of the hook runs without the decorator: [alarm, err].
HookBody(al, hook) ==
  [alarm |-> al,
   err |-> IF hook.outcome \in {"returns", "slow"} THEN "" ELSE hook.outcome]

\* timeout(duration)(func): signal.alarm(duration), func, signal.alarm(0).
\* The handler raises TimeoutError in a body that is slow; the alarm stays
\* when the body raises, for signal.alarm(0) is not reached.
decorated_function(al, hook) ==
  CASE hook.outcome = "returns" -> [alarm |-> FALSE, err |-> ""]
    [] hook.outcome = "slow" -> [alarm |-> FALSE, err |-> "TimeoutError"]
    [] OTHER -> [alarm |-> TRUE, err |-> hook.outcome]

\* method(*args, **kwargs)
HookCall(al, hook) ==
  IF hook.decorated THEN decorated_function(al, hook) ELSE HookBody(al, hook)

\* A dispatch that calls the hook an extension inherits from ExtMixin too.
Unimplemented_never(hook) == hook.impl = "none"

\* method is None or method is base_method
Unimplemented(hook) == hook.impl # "own"

\* The except clauses of _wrap_call: PkrException is raised again as it is;
\* for the others the message is written first, and formatting it reads
\* extension.name, which raises AttributeError when the extension has no
\* such attribute.
WrapRaised(d, ext, c) ==
  IF c.err = "PkrException" THEN [d EXCEPT !.err = c.err, !.alarm = c.alarm]
  ELSE IF ~ext.named THEN [d EXCEPT !.err = "AttributeError", !.alarm = c.alarm]
  ELSE [d EXCEPT !.err = c.err,
                 !.alarm = c.alarm,
                 !.log = Append(d.log, [ext |-> ext.name, err |-> c.err])]

\* return (name, method(*args, **kwargs)): the wrapper keeps output[1].
WrapReturned(d, ext, c) ==
  [d EXCEPT !.outputs = Append(d.outputs, [of |-> ext.name]), !.alarm = c.alarm]

\* The try statement of _wrap_call, c what the call of the hook gave.
WrapTry(d, ext, c) ==
  IF c.err = "" THEN WrapReturned(d, ext, c) ELSE WrapRaised(d, ext, c)

\* Extensions._wrap_call
wrap_call(d, ext) ==
  IF Unimplemented(ext.hook) THEN d
  ELSE WrapTry([d EXCEPT !.calls = Append(d.calls, ext.name)], ext,
               HookCall(d.alarm, ext.hook))

\* The extension of this name among those list_all found.
ExtNamed(mods, name) == mods[CHOOSE i \in 1..Len(mods) : mods[i].name = name]

\* The list of wrapper: _wrap_call for each item of self.extensions, until
\* one raises.
RECURSIVE WrapEach(_, _, _, _)
WrapEach(d, items, i, mods) ==
  IF i > Len(items) \/ d.err # "" THEN d
  ELSE WrapEach(wrap_call(d, ExtNamed(mods, items[i].val)), items, i + 1, mods)

NoDispatch(al) == [calls |-> <<>>, outputs |-> <<>>, err |-> "", alarm |-> al, log |-> <<>>]

\* Extensions(features).<hook>(...): __getattr__ and the wrapper it returns.
dispatch(h, features, mods, al) ==
  IF features = PyNone \/ h[features.v].items = <<>> THEN NoDispatch(al)
  ELSE WrapEach(NoDispatch(al),
                extensions(h, features, [i \in 1..Len(mods) |-> mods[i].name]),
                1, mods)

(***************************************************************************)
(* The merge utility on its own: a source and a destination are given, and *)
(* the program merges into the destination, again and again.               *)
(***************************************************************************)
VARIABLES
  heap,         \* the objects of the process
  source,       \* merge's first argument
  destination,  \* merge's second argument, which it returns
  source0,      \* the value of source when the program starts
  ops,          \* the calls made so far: "source", "copy", "other" or "diff"; in the
                \* loading call by call, the calls of _load_env_file in progress
  hist,         \* the value of destination at the start and after each call
                \* (after a diff: the mapping it returned)
  raised,       \* whether the last call raised
  envfile,      \* the environment's file: [tree, required]
  exthook,      \* the setup hook of the installed extension
  metafile,     \* the Kard's meta.yml, Absent before the Kard is created
  kard,         \* the Kard object of the last process
  given,        \* the mapping Kard.create handed to the constructor
  disk,         \* the file system: the node at each path that exists
  templates,    \* the containers of the environment, as the driver reads them
  context,      \* the template engine's tpl_context
  extmods,      \* the extensions list_all finds, [name, hook] each, in its order
  hookfeatures, \* the features of the Extensions object that dispatches
  alarm,        \* whether an alarm of signal.alarm is pending
  made          \* what each process computed: [how, from, err, clean, computed, meta,
                \* warn, ext, args], warn the warnings it wrote, ext the names of
                \* kard.extensions.extensions and args the arguments of the command

mergeVars == <<heap, source, destination, source0, ops, hist, raised>>
kardVars == <<envfile, exthook, metafile, kard, given, made>>
renderVars == <<disk, templates, context>>
hookVars == <<extmods, hookfeatures, alarm>>
vars == <<heap, source, destination, source0, ops, hist, raised, envfile, exthook,
          metafile, kard, given, made, disk, templates, context, extmods, hookfeatures,
          alarm>>

\* No hook is dispatched: no extension, no alarm.
NoHooks ==
  /\ extmods = <<>>
  /\ hookfeatures = <<>>
  /\ alarm = FALSE

\* Nothing is rendered: no file system, no container.
NoRender ==
  /\ disk = <<>>
  /\ templates = <<>>
  /\ context = 0

MaxInt == 2
MaxLen == 2
MaxCalls == 2

\* {key: val}, or {} when val is Absent
Opt(key, val) == IF val = Absent THEN PVEmpty ELSE PV1(key, val)

IntScalars == {PVInt(n) : n \in 1..MaxInt}
D1 == PV1("a", PVInt(1))
ListElems == {PVInt(1), PVInt(2), D1}
Lists ==
  {PVList(s) : s \in UNION {[1..n -> ListElems] : n \in 0..MaxLen}}
    \cup {PVList(<<PVBool(1)>>), PVList(<<PVInt(1), PVBool(1)>>)}
SubDicts ==
  {PVEmpty} \cup {PV1("a", x) : x \in {PVInt(1), PVInt(2), PVList(<<PVInt(1)>>),
                                       PVList(<<D1>>)}}
KVals == {Absent, PVStr(1), PVBool(1)} \cup IntScalars \cup Lists \cup SubDicts
JVals == {Absent, PVInt(1), PVStr(1)}

MergeTrees ==
  {PVDict(Opt("j", x).items \o Opt("k", y).items) : x \in JVals, y \in KVals}

\* The sources of the later calls into the same destination.
OtherSources == {PV1("k", PVList(<<PVInt(1)>>)), PV1("k", PVList(<<D1>>))}

NoKard == [clean_meta |-> PyNone, meta |-> PyNone, env |-> PyNone, features |-> PyNone]

\* No pkr installation: the state of the Kard variables where only merge runs.
NoKardState ==
  /\ envfile = [tree |-> PVEmpty, required |-> <<>>, imports |-> <<>>, overlays |-> <<>>]
  /\ exthook = [op |-> "none", key |-> "", val |-> PVNone]
  /\ metafile = Absent
  /\ kard = NoKard
  /\ given = Absent
  /\ made = <<>>
  /\ NoHooks
  /\ NoRender

InitMerge ==
  \E s \in MergeTrees, d \in MergeTrees :
    LET bs == Build(<<>>, s)
        bd == Build(bs.h, d)
    IN /\ heap = bd.h
       /\ source = bs.v
       /\ destination = bd.v
       /\ source0 = s
       /\ ops = <<>>
       /\ hist = <<d>>
       /\ raised = FALSE
       /\ NoKardState

\* merge(source, destination)
MergeCall ==
  /\ Len(ops) < MaxCalls
  /\ ~raised
  /\ \A i \in 1..Len(ops) : ops[i] \notin {"copy", "diff", "patch"}
  /\ LET r == merge(heap, source, destination)
     IN /\ heap' = r.h
        /\ raised' = r.err
        /\ ops' = Append(ops, "source")
        /\ hist' = Append(hist, Val(r.h, destination))
  /\ UNCHANGED <<source, destination, source0, hookVars, renderVars, kardVars>>

\* merge(other, destination), other a mapping built for this call
MergeOther ==
  /\ Len(ops) < MaxCalls
  /\ ops # <<>>
  /\ ops[1] \notin {"diff", "patch"}
  /\ ~raised
  /\ \E t \in OtherSources :
       LET b == Build(heap, t)
           r == merge(b.h, b.v, destination)
       IN /\ heap' = r.h
          /\ raised' = r.err
          /\ ops' = Append(ops, "other")
          /\ hist' = Append(hist, Val(r.h, destination))
  /\ UNCHANGED <<source, destination, source0, hookVars, renderVars, kardVars>>

\* merge(source, copy.deepcopy(source))
MergeCopy ==
  /\ ops = <<>>
  /\ LET c == DeepCopy(heap, source)
         r == merge(c.h, source, c.v)
     IN /\ heap' = r.h
        /\ destination' = c.v
        /\ raised' = r.err
        /\ ops' = <<"copy">>
        /\ hist' = <<Val(c.h, c.v), Val(r.h, c.v)>>
  /\ UNCHANGED <<source, source0, hookVars, renderVars, kardVars>>

\* diff(destination, source): what source holds that destination does not
DiffCall ==
  /\ ops = <<>>
  /\ LET r == diff(heap, destination, source)
     IN /\ heap' = r.h
        /\ hist' = <<hist[1], Val(r.h, r.v)>>
  /\ ops' = <<"diff">>
  /\ UNCHANGED <<source, destination, source0, hookVars, renderVars, raised, kardVars>>

\* What the two merges of the patch left in mapping c: r1 after the first, r2 after
\* the second.
PatchRecord(r1, r2, c) ==
  /\ heap' = r2.h
  /\ raised' = r2.err
  /\ hist' = <<hist[1], Val(r1.h, c), Val(r2.h, c)>>

\* merge(patch, c) once more, r1 what the first merge gave.
PatchAgain(r1, patch, c) ==
  IF r1.err THEN PatchRecord(r1, r1, c) ELSE PatchRecord(r1, merge(r1.h, patch, c), c)

\* merge(patch, c), patch = [h, v] the diff and c the copy of the baseline.
PatchCopy(patch, c) ==
  /\ PatchAgain(merge(patch.h, patch.v, c), patch.v, c)
  /\ destination' = c

\* patch = diff(destination, source), c the copy of destination.
PatchDiff(c) == PatchCopy(diff(c.h, destination, source), c.v)

\* merge(diff(destination, source), copy.deepcopy(destination)), and the same diff
\* merged into the result once more
DiffPatch ==
  /\ ops = <<>>
  /\ PatchDiff(DeepCopy(heap, destination))
  /\ ops' = <<"patch">>
  /\ UNCHANGED <<source, source0, hookVars, renderVars, kardVars>>

NextMerge == MergeCall \/ MergeOther \/ MergeCopy \/ DiffCall \/ DiffPatch

SpecMerge == InitMerge /\ [][NextMerge]_vars

(***************************************************************************)
(* The Kard's life: an environment and an extension are installed; one     *)
(* process creates the Kard, later processes load it or update it.         *)
(***************************************************************************)
MaxRuns == 3
MaxSeq == 6

\* Whether no sequence of tree x is longer than MaxSeq: the meta files that the
\* processes of the model read.
RECURSIVE Short(_)
Short(x) ==
  /\ x.k = "list" => Len(x.items) <= MaxSeq
  /\ \A i \in 1..Len(x.items) : Short(x.items[i].val)

PS(val) == [k |-> val.k, v |-> val.v, items |-> <<>>]

\* The default_meta of the environments.
MetaTagList == PVDict(<<Item("k", PVList(<<PVInt(1)>>)), Item("tag", PS(StrDev))>>)
MetaMapping ==
  PVDict(<<Item("j", PS(StrDev)), Item("k", PV1("a", PVInt(1))),
           Item("real_kard_path", PS(StrDev))>>)
MetaMappingList == PVDict(<<Item("k", PVList(<<D1>>)), Item("tag", PS(StrDev))>>)
DefaultMetas == {Absent, MetaTagList, MetaMapping, MetaMappingList}

DefaultFeatures == {PVList(<<>>), PVList(<<PS(StrFeatureF)>>)}

\* An environment file: default_features f, default_meta m, required_meta r.
EnvFile(f, m, r) ==
  [tree |-> PVDict(Opt("default_features", f).items \o Opt("default_meta", m).items),
   required |-> r, imports |-> <<>>, overlays |-> <<>>]

\* The environments: every default_meta with every default_features and no
\* required_meta, and three that require metas.
EnvFiles ==
  {EnvFile(f, m, <<>>) : f \in DefaultFeatures, m \in DefaultMetas}
    \cup {EnvFile(PVList(<<PS(StrFeatureF)>>), MetaTagList, <<DefFlat("tag")>>),
          EnvFile(PVList(<<PS(StrFeatureF)>>), MetaMapping,
                  <<DefNested("k", <<DefFlat("a")>>)>>),
          EnvFile(PVList(<<PS(StrFeatureF)>>), Absent,
                  <<DefFlat("tag"), DefNested("k", <<DefFlat("a")>>)>>)}

\* The setup hooks an extension may have.
ExtHooks ==
  {[op |-> "none", key |-> "k", val |-> PVNone],
   [op |-> "set", key |-> "tag", val |-> PS(StrExt)],
   [op |-> "set", key |-> "k", val |-> PVList(<<PVInt(2)>>)],
   [op |-> "setdefault", key |-> "k", val |-> PV1("b", PVInt(2))],
   [op |-> "append", key |-> "k", val |-> D1]}

\* The metas a user gives to Kard.create.
UserExtras ==
  {PVEmpty,
   PV1("tag", PS(StrUser)),
   PV1("tag", PVInt(7)),
   PV1("k", PVList(<<PVInt(3)>>)),
   PV1("k", PV1("a", PVInt(2))),
   PV1("k", PVList(<<D1>>)),
   PVDict(<<Item("j", PS(StrTrue)), Item("src_path", PS(StrRelPath))>>),
   PVDict(<<Item("k", PVList(<<PVInt(2), PVInt(1)>>)), Item("tag", PS(StrUser))>>)}

UserFeatures ==
  {PVList(<<>>), PVList(<<PS(StrFeatureF)>>), PVList(<<PS(StrFeatureG)>>)}

DriverArgs == {PyNone, StrDocker}

\* The extensions list_all() finds: that of feature f, whose setup is the hook, and
\* that of feature g, which has no setup.
Installed == <<StrFeatureF, StrFeatureG>>

InitKard ==
  /\ heap = <<>>
  /\ source = PyNone
  /\ destination = PyNone
  /\ source0 = PVEmpty
  /\ ops = <<>>
  /\ hist = <<>>
  /\ raised = FALSE
  /\ envfile \in EnvFiles
  /\ exthook \in ExtHooks
  /\ metafile = Absent
  /\ kard = NoKard
  /\ given = Absent
  /\ made = <<>>
  /\ NoHooks
  /\ NoRender

\* What a process that ran the constructor leaves: r its result, how the command.
Ran(r, how, from, args, installed) ==
  /\ heap' = r.h
  /\ raised' = r.err
  /\ kard' = IF r.err THEN NoKard ELSE r.kard
  /\ made' = Append(made, [how |-> how, from |-> from, err |-> r.err,
                           clean |-> IF r.err THEN PVNone ELSE Val(r.h, r.kard.clean_meta),
                           computed |-> r.computed,
                           meta |-> IF r.err THEN PVNone ELSE Val(r.h, r.kard.meta),
                           warn |-> r.warn,
                           ext |-> IF r.err THEN <<>>
                                   ELSE extensions(r.h, DictGet(r.h[r.kard.meta.v],
                                                                "features"),
                                                   installed),
                           args |-> args])
  /\ ops' = Append(ops, how)

\* kard.update() of Kard.create, r what the constructor gave for the mapping given
\* (a plain value): the meta file is written unless the constructor raised.
CreateUpdate(r, extras, args, installed) ==
  /\ Ran(r, "create", extras, args, installed)
  /\ given' = extras
  /\ metafile' = IF r.err THEN Absent ELSE Val(r.h, r.kard.clean_meta)

\* kard = cls(name, kard_path, extras), x the mapping extras.
CreateInit(r, x, args, installed) ==
  CreateUpdate([r EXCEPT !.warn = x.warn \o @], Val(x.h, x.v), args, installed)

CreateKard(x, args, installed) ==
  CreateInit(kard_init(x.h, x.v, envfile, exthook), x, args, installed)

\* pkr kard create: Kard.create(name, env, driver, extra, features); the Kard's
\* directory is removed when the constructor raises.
KardCreate ==
  /\ ops = <<>>
  /\ \E extra \in UserExtras, features \in UserFeatures, driver \in DriverArgs :
       CreateKard(create_extras(<<>>, extra, features, driver),
                  [extra |-> extra, features |-> features, driver |-> driver], Installed)
  /\ UNCHANGED <<source, destination, source0, hookVars, renderVars, hist, envfile, exthook>>

\* Kard(name, path) on b, the mapping read from the meta file.
LoadKard(b) == kard_init(b.h, b.v, envfile, exthook)

\* A command that loads the Kard: Kard.load(name), in a new process.
KardLoad ==
  /\ metafile # Absent
  /\ Short(metafile)
  /\ Len(ops) < MaxRuns
  /\ Ran(LoadKard(Build(<<>>, metafile)), "load", metafile, Absent, Installed)
  /\ UNCHANGED <<source, destination, source0, hookVars, renderVars, hist, envfile, exthook, metafile, given>>

\* update() of the loaded Kard r: clean_meta is written to the meta file.
UpdateKard(r) ==
  /\ Ran(r, "update", metafile, Absent, Installed)
  /\ metafile' = IF r.err THEN metafile ELSE Val(r.h, r.kard.clean_meta)

\* pkr kard update: Kard.load(name).update(), in a new process.
KardUpdate ==
  /\ metafile # Absent
  /\ Short(metafile)
  /\ Len(ops) < MaxRuns
  /\ UpdateKard(LoadKard(Build(<<>>, metafile)))
  /\ UNCHANGED <<source, destination, source0, hookVars, renderVars, hist, envfile, exthook, given>>

NextKard == KardCreate \/ KardLoad \/ KardUpdate

SpecKard == InitKard /\ [][NextKard]_vars

(***************************************************************************)
(* The features of a Kard: the environment may import a file, list default *)
(* features and hold an overlay for feature e; one process creates the     *)
(* Kard from a meta file and --features, once and again, and later         *)
(* processes load it or update it.                                         *)
(***************************************************************************)
\* The list of the features s.
FeatureList(s) == PVList([i \in 1..Len(s) |-> PS(s[i])])

\* The default_features of env.yml (Absent: the key is missing), of the imported
\* file and of the overlay e.yml (Absent: there is no such file).
EnvDefaults ==
  {Absent, FeatureList(<<StrFeatureF>>),
   FeatureList(<<StrFeatureE, StrFeatureF, StrFeatureE>>)}
ImportDefaults ==
  {Absent, FeatureList(<<StrFeatureG>>),
   FeatureList(<<StrFeatureG, StrFeatureF, StrFeatureG>>)}
OverlayDefaults ==
  {Absent, FeatureList(<<StrFeatureG>>),
   FeatureList(<<StrFeatureF, StrFeatureG, StrFeatureG>>)}

\* The environment with default_features d, import file imp and overlay ov.
FeatureEnv(d, imp, ov) ==
  [tree |-> PVDict(Opt("default_features", d).items
                     \o (IF imp = Absent THEN <<>>
                         ELSE <<Item("import", FeatureList(<<StrImport>>))>>)),
   required |-> <<>>,
   imports |-> IF imp = Absent THEN <<>>
               ELSE <<[name |-> StrImport,
                       tree |-> PVDict(<<Item("default_features", imp),
                                         Item("default_meta", PV1("tag", PS(StrDev)))>>)]>>,
   overlays |-> IF ov = Absent THEN <<>>
                ELSE <<[name |-> StrFeatureE,
                        tree |-> PVDict(<<Item("default_features", ov),
                                          Item("default_meta",
                                               PV1("k", PVList(<<PVInt(1)>>)))>>)]>>]

FeatureEnvs ==
  {FeatureEnv(d, imp, ov) : d \in EnvDefaults, imp \in ImportDefaults,
                            ov \in OverlayDefaults}

\* The hooks of the extension of feature f.
FeatureHooks ==
  {[op |-> "none", key |-> "k", val |-> PVNone],
   [op |-> "set", key |-> "tag", val |-> PS(StrExt)]}

\* The mapping of the meta file given with --meta.
PassedMetas ==
  {PVEmpty,
   PV1("features", FeatureList(<<StrFeatureE>>)),
   PV1("features",
       FeatureList(<<StrFeatureE, StrFeatureF, StrFeatureE, StrFeatureG, StrFeatureF>>)),
   PVDict(<<Item("features", FeatureList(<<StrFeatureG>>)), Item("tag", PS(StrUser))>>)}

\* The features given with --features.
ArgFeatures ==
  {FeatureList(<<>>), FeatureList(<<StrFeatureE>>),
   FeatureList(<<StrFeatureG, StrFeatureE, StrFeatureG>>),
   FeatureList(<<StrFeatureF, StrFeatureG>>)}

\* The orders in which list_all() may find the installed extensions.
InstalledOrders == {Installed, <<StrFeatureG, StrFeatureF>>}

InitFeatures ==
  /\ heap = <<>>
  /\ source = PyNone
  /\ destination = PyNone
  /\ source0 = PVEmpty
  /\ ops = <<>>
  /\ hist = <<>>
  /\ raised = FALSE
  /\ envfile \in FeatureEnvs
  /\ exthook \in FeatureHooks
  /\ metafile = Absent
  /\ kard = NoKard
  /\ given = Absent
  /\ made = <<>>
  /\ NoHooks
  /\ NoRender

\* Kard.create(name, env, None, {}, features, meta), the first of the process.
FeaturesCreate ==
  /\ ops = <<>>
  /\ \E passed \in PassedMetas, features \in ArgFeatures, installed \in InstalledOrders :
       CreateKard(create_extras(<<>>, passed, features, PyNone),
                  [extra |-> passed, features |-> features, driver |-> PyNone], installed)
  /\ UNCHANGED <<source, destination, source0, hookVars, renderVars, hist, envfile, exthook>>

\* Kard.create once more in the process that created, with the same arguments.
FeaturesCreateAgain ==
  /\ ops # <<>>
  /\ Len(ops) < MaxRuns
  /\ ops[Len(ops)] = "create"
  /\ \E installed \in InstalledOrders :
       CreateKard(create_extras(heap, made[1].args.extra, made[1].args.features,
                                made[1].args.driver),
                  made[1].args, installed)
  /\ UNCHANGED <<source, destination, source0, hookVars, renderVars, hist, envfile, exthook>>

NextFeatures == FeaturesCreate \/ FeaturesCreateAgain \/ KardLoad \/ KardUpdate

SpecFeatures == InitFeatures /\ [][NextFeatures]_vars

(***************************************************************************)
(* The required metas: an Environment is loaded and a mapping of supplied  *)
(* values is at hand; the program calls env.get_meta(extra), again with    *)
(* the same mapping or with a new one holding the supplied values.  In     *)
(* this program source is extra, destination the Environment's mapping,    *)
(* given the values supplied and hist what each call left:                 *)
(* [err, meta, extra], meta the mapping returned.                          *)
(***************************************************************************)
\* The default_meta of the environments with required metas.
RequiredDefaults ==
  {Absent,
   PV1("tag", PS(StrDev)),
   PV1("k", PV1("a", PVInt(1))),
   PVDict(<<Item("k", PV1("a", PVInt(1))), Item("tag", PS(StrDev))>>),
   PV1("k", PVList(<<PVInt(1)>>))}

\* Their required_meta.
RequiredMetas ==
  {<<DefFlat("tag")>>,
   <<DefNested("k", <<DefFlat("a")>>)>>,
   <<DefFlat("tag"), DefNested("k", <<DefFlat("a")>>)>>,
   <<DefNested("k", <<DefFlat("a"), DefFlat("b")>>)>>}

RequiredEnvs == {EnvFile(Absent, m, r) : m \in RequiredDefaults, r \in RequiredMetas}

\* The values supplied.
SuppliedMetas ==
  {PVEmpty,
   PV1("tag", PS(StrUser)),
   PV1("k", PV1("a", PVInt(2))),
   PVDict(<<Item("k", PV1("a", PVInt(2))), Item("tag", PS(StrUser))>>),
   PV1("k", PV1("b", PVInt(2))),
   PV1("k", PVList(<<PVInt(3)>>))}

\* extra = x.v, a new mapping of the values supplied, beside Environment e.
RequiredStart(e, x) ==
  /\ heap = x.h
  /\ source = x.v
  /\ destination = e.env

\* env = Environment(name), e what it gave.
RequiredBuilt(e) == RequiredStart(e, Build(e.h, given))

InitRequired ==
  /\ envfile \in RequiredEnvs
  /\ given \in SuppliedMetas
  /\ RequiredBuilt(Environment(Alloc(<<>>, ListObj(<<>>)).h, envfile, Ref(1)))
  /\ source0 = given
  /\ ops = <<>>
  /\ hist = <<>>
  /\ raised = FALSE
  /\ exthook = [op |-> "none", key |-> "", val |-> PVNone]
  /\ metafile = Absent
  /\ kard = NoKard
  /\ made = <<>>
  /\ NoHooks
  /\ NoRender

\* What the call env.get_meta(extra) leaves, r what it gave.
RequiredRecord(r, extra) ==
  /\ heap' = r.h
  /\ raised' = r.err
  /\ source' = extra
  /\ hist' = Append(hist, [err |-> r.err,
                           meta |-> IF r.err THEN PVNone ELSE Val(r.h, r.v),
                           extra |-> Val(r.h, extra)])

\* env.get_meta(extra), with the mapping extra as the program holds it.
GetMeta ==
  /\ ~raised
  /\ Len(ops) < MaxCalls
  /\ RequiredRecord(env_get_meta(heap, destination, envfile.required, source), source)
  /\ ops' = Append(ops, "same")
  /\ UNCHANGED <<destination, source0, hookVars, renderVars, kardVars>>

\* env.get_meta(x.v), x a new mapping.
GetMetaOf(x) ==
  RequiredRecord(env_get_meta(x.h, destination, envfile.required, x.v), x.v)

\* env.get_meta(extra) once more, extra a new mapping of the values supplied.
GetMetaFresh ==
  /\ ~raised
  /\ ops # <<>>
  /\ Len(ops) < MaxCalls
  /\ GetMetaOf(Build(heap, given))
  /\ ops' = Append(ops, "fresh")
  /\ UNCHANGED <<destination, source0, hookVars, renderVars, kardVars>>

NextRequired == GetMeta \/ GetMetaFresh

SpecRequired == InitRequired /\ [][NextRequired]_vars

(***************************************************************************)
(* Rendering: a Kard of one container is made again and again, with reset  *)
(* or without, and files may be left in its subfolders in between.         *)
(***************************************************************************)
\* The disk that holds these files, each [path, text], under the pkr path.
TreeOf(files) ==
  [p \in {pkr_path, templates_path, kard_path}
         \cup UNION {{SubSeq(f.path, 1, i) : i \in Len(templates_path)..Len(f.path)} : f \in files}
     |-> IF \E f \in files : f.path = p
           THEN FileNode((CHOOSE f \in files : f.path = p).text)
           ELSE DirNode]

SrcFile(names, text) == [path |-> templates_path \o names, text |-> text]

\* The source trees.
SourceTrees ==
  {TreeOf({SrcFile(<<"a.template">>, "A"), SrcFile(<<"a">>, "a"), SrcFile(<<"b">>, "b"),
           SrcFile(<<"sub", "a.template">>, "SA"), SrcFile(<<"sub", "b">>, "sb")}),
   TreeOf({SrcFile(<<"a.template">>, "A"), SrcFile(<<"b">>, "b"),
           SrcFile(<<"sub", "a.template">>, "SA"), SrcFile(<<"sub", "b">>, "sb")}),
   TreeOf({SrcFile(<<"a">>, "a"), SrcFile(<<"b">>, "b"), SrcFile(<<"sub", "b">>, "sb")})}

Req(src, dst, exclude, template) ==
  [src |-> src, dst |-> dst, exclude |-> exclude, template |-> template]

\* The requirements of a build configuration.
BuildReqs ==
  {Req(PathOf(templates_path), <<>>, <<>>, TRUE),
   Req(PathOf(templates_path), <<"out">>, <<Exclude(templates_path \o <<"sub">>, "", FALSE)>>, TRUE),
   Req(PathOf(templates_path), <<>>, <<Exclude(templates_path, "*.template", TRUE)>>, FALSE),
   Req(Glob(templates_path, "*"), <<"out">>, <<Exclude(templates_path, "*.template", FALSE)>>, TRUE),
   Req(Glob(templates_path, "*.template"), <<>>, <<>>, TRUE),
   Req(PathOf(templates_path \o <<"a.template">>), <<>>, <<>>, TRUE),
   Req(PathOf(templates_path \o <<"a.template">>), <<"out">>, <<>>, TRUE),
   Req(PathOf(templates_path \o <<"b">>), <<"out">>,
       <<Exclude(templates_path \o <<"b">>, "", FALSE)>>, TRUE),
   Req(PathOf(templates_path \o <<"b">>), <<>>, <<Exclude(templates_path, "*", FALSE)>>, TRUE),
   Req(PathOf(templates_path \o <<"b">>), <<>>,
       <<Exclude(templates_path \o <<"b">>, "", TRUE)>>, FALSE)}

\* The requirements of a run configuration.
RunReqs ==
  {Req(PathOf(templates_path \o <<"sub">>), <<>>,
       <<Exclude(templates_path \o <<"sub">>, "*.template", TRUE)>>, FALSE)}

Cfg(subfolder, requires, dockerfile) ==
  [subfolder |-> subfolder, requires |-> requires, dockerfile |-> dockerfile]

Containers ==
  {[build |-> b, run |-> r] :
     b \in {<<>>} \cup {<<Cfg("ctx", rs, df)>> : rs \in {<<>>} \cup {<<q>> : q \in BuildReqs},
                                                 df \in {"", "a"}},
     r \in {<<>>} \cup {<<Cfg("run", <<q>>, "")>> : q \in RunReqs}}

\* The context of the engine: the meta of the Kard.
TplContext == 1

InitRender ==
  /\ disk \in SourceTrees
  /\ templates \in Containers
  /\ context = TplContext
  /\ heap = <<>>
  /\ source = PyNone
  /\ destination = PyNone
  /\ source0 = PVNone
  /\ ops = <<>>
  /\ hist = <<>>
  /\ raised = FALSE
  /\ envfile = [tree |-> PVEmpty, required |-> <<>>, imports |-> <<>>, overlays |-> <<>>]
  /\ exthook = [op |-> "none", key |-> "", val |-> PVNone]
  /\ metafile = Absent
  /\ kard = NoKard
  /\ given = Absent
  /\ made = <<>>
  /\ NoHooks

\* What a make leaves, m what it gave; at is its place among the operations.
Made(m, reset) ==
  /\ disk' = m.d
  /\ raised' = (m.err # "")
  /\ hist' = Append(hist, [at |-> Len(ops) + 1, reset |-> reset, before |-> disk,
                           after |-> m.d, err |-> m.err, log |-> m.log])

\* pkr kard make
MakeReset ==
  /\ Len(ops) < MaxCalls
  /\ \E order \in Listings(get_templates(templates)) :
       Made(make(disk, order, TRUE, context), TRUE)
  /\ ops' = Append(ops, "make")
  /\ UNCHANGED <<heap, source, destination, source0, hookVars, templates, context, kardVars>>

\* pkr kard make --update
MakeUpdate ==
  /\ Len(ops) < MaxCalls
  /\ \E order \in Listings(get_templates(templates)) :
       Made(make(disk, order, FALSE, context), FALSE)
  /\ ops' = Append(ops, "update")
  /\ UNCHANGED <<heap, source, destination, source0, hookVars, templates, context, kardVars>>

\* The subfolders an earlier render may have left a file in: those the
\* instructions name.
LeftFolders == {kard_path \o <<t.subfolder>> : t \in get_templates(templates)}

\* A file of an earlier render is left in a subfolder.
LeaveFile ==
  /\ Len(ops) < MaxCalls
  /\ \A i \in 1..Len(ops) : ops[i] # "left"
  /\ \E folder \in LeftFolders :
       /\ ~Exists(disk, folder \o <<"old">>)
       /\ disk' = Put(Mkdirs(disk, folder), folder \o <<"old">>, FileNode("old"))
  /\ ops' = Append(ops, "left")
  /\ UNCHANGED <<heap, source, destination, source0, hookVars, hist, raised, templates, context,
                 kardVars>>

NextRender == MakeReset \/ MakeUpdate \/ LeaveFile

SpecRender == InitRender /\ [][NextRender]_vars

(***************************************************************************)
(* merge and its arguments: either argument may be None, and the caller    *)
(* may hand a mapping for the warnings.                                    *)
(***************************************************************************)
MergeArgs == MergeTrees \cup {PVNone}

\* source = s and destination = d, new objects (None is no object).
InitMergeArgs ==
  \E s \in MergeArgs, d \in MergeArgs :
    LET bs == Build(<<>>, s)
        bd == Build(bs.h, d)
    IN /\ heap = bd.h
       /\ source = bs.v
       /\ destination = bd.v
       /\ source0 = s
       /\ ops = <<>>
       /\ hist = <<d>>
       /\ raised = FALSE
       /\ NoKardState

\* merge(source, destination, warnings=warnings): merge takes two arguments,
\* and the call raises TypeError before the body runs.
merge_warnings(h, src, dest, warnings) == Raise(h)

\* What a call leaves, r what it gave: the value returned (None when it
\* raised) and the mapping of the warnings.
MergeArgsRecord(r, warnings) ==
  /\ heap' = r.h
  /\ raised' = r.err
  /\ hist' = Append(hist, [err |-> r.err,
                           ret |-> IF r.err THEN PVNone ELSE Val(r.h, destination),
                           warnings |-> Val(r.h, warnings)])

\* result = merge(source, destination), source or destination None
MergeAbsent ==
  /\ ops = <<>>
  /\ source = PyNone \/ destination = PyNone
  /\ MergeArgsRecord(merge(heap, source, destination), PyNone)
  /\ ops' = <<"absent">>
  /\ UNCHANGED <<source, destination, source0, hookVars, renderVars, kardVars>>

\* warnings = {}; merge(source, destination, warnings=warnings)
MergeWarningsOf(w) ==
  MergeArgsRecord(merge_warnings(w.h, source, destination, w.v), w.v)

MergeWarnings ==
  /\ ops = <<>>
  /\ source # PyNone /\ destination # PyNone
  /\ MergeWarningsOf(Alloc(heap, EmptyDict))
  /\ ops' = <<"warnings">>
  /\ UNCHANGED <<source, destination, source0, hookVars, renderVars, kardVars>>

NextMergeArgs == MergeAbsent \/ MergeWarnings

SpecMergeArgs == InitMergeArgs /\ [][NextMergeArgs]_vars

(***************************************************************************)
(* Hooks: an Extensions object of some features dispatches a hook to the   *)
(* extensions found, and time passes after the dispatch.                   *)
(***************************************************************************)
\* What the body of a hook may do.
HookOutcomes == {"returns", "slow", "PkrException", "Exception"}

\* The hooks of an extension found.
Hooks ==
  {Hook("none", FALSE, "returns"), Hook("base", FALSE, "returns")}
    \cup {Hook("own", dec, o) : dec \in BOOLEAN, o \in HookOutcomes}

Ext(name, named, hook) == [name |-> name, named |-> named, hook |-> hook]

\* What list_all finds: the extensions f and g, in either order.
ExtModules ==
  {<<Ext(order[1], nf, hf), Ext(order[2], TRUE, hg)>> :
     order \in InstalledOrders, nf \in BOOLEAN, hf \in Hooks, hg \in Hooks}

\* The feature lists of the Extensions object: none, or features among e, f, g.
HookFeatures ==
  {FeatureList(s) : s \in UNION {[1..n -> {StrFeatureE, StrFeatureF, StrFeatureG}]
                                   : n \in 0..MaxLen}}

InitHooks ==
  /\ extmods \in ExtModules
  /\ \E fl \in HookFeatures \cup {PVNone} :
       /\ heap = Build(<<>>, fl).h
       /\ hookfeatures = Build(<<>>, fl).v
       /\ given = fl
  /\ alarm = FALSE
  /\ source = PyNone
  /\ destination = PyNone
  /\ source0 = PVNone
  /\ ops = <<>>
  /\ hist = <<>>
  /\ raised = FALSE
  /\ envfile = [tree |-> PVEmpty, required |-> <<>>, imports |-> <<>>, overlays |-> <<>>]
  /\ exthook = [op |-> "none", key |-> "", val |-> PVNone]
  /\ metafile = Absent
  /\ kard = NoKard
  /\ made = <<>>
  /\ NoRender

\* What a dispatch leaves, d what it gave.
Dispatched(d) ==
  /\ alarm' = d.alarm
  /\ raised' = (d.err # "")
  /\ hist' = Append(hist, [calls |-> d.calls, outputs |-> d.outputs, err |-> d.err,
                           log |-> d.log, late |-> FALSE])

\* extensions.<hook>(...)
Dispatch ==
  /\ Len(ops) < MaxCalls
  /\ Dispatched(dispatch(heap, hookfeatures, extmods, alarm))
  /\ ops' = Append(ops, "dispatch")
  /\ UNCHANGED <<heap, source, destination, source0, extmods, hookfeatures, renderVars,
                 kardVars>>

\* Time passes after a dispatch: a pending alarm goes off, and the handler
\* raises TimeoutError in the code that runs then.
AlarmGoesOff ==
  /\ Len(ops) < MaxCalls
  /\ ops # <<>>
  /\ alarm
  /\ alarm' = FALSE
  /\ raised' = TRUE
  /\ hist' = Append(hist, [calls |-> <<>>, outputs |-> <<>>, err |-> "TimeoutError",
                           log |-> <<>>, late |-> TRUE])
  /\ ops' = Append(ops, "later")
  /\ UNCHANGED <<heap, source, destination, source0, extmods, hookfeatures, renderVars,
                 kardVars>>

NextHooks == Dispatch \/ AlarmGoesOff

SpecHooks == InitHooks /\ [][NextHooks]_vars

(***************************************************************************)
(* The Kards of the user and the current link: Kard.create is called, one  *)
(* process after another, with the arguments of `pkr kard create`.  The    *)
(* file system holds the directory of the Kards, a directory with meta.yml *)
(* for each Kard, and the symbolic link current.                           *)
(***************************************************************************)
\* get_kard_root_path()
get_kard_root_path == <<"kards">>

\* Kard._build_kard_path(name)
build_kard_path(name) == get_kard_root_path \o <<name>>

CURRENT_NAME == "current"
META_FILE == "meta.yml"

\* The symbolic link to dst_path.
LinkNode(dst_path) == [k |-> "link", text |-> dst_path, ctx |-> 0]

\* path.mkdir(exist_ok=True)
mkdir(d, p) == IF Exists(d, p) THEN d ELSE Put(d, p, DirNode)

\* try: current_path.unlink() except OSError: pass
unlink(d, p) == IF Exists(d, p) /\ d[p].k # "dir" THEN rmtree(d, p) ELSE d

\* Kard.get_current: the name of what the link resolves to.
get_current(d) ==
  IF Exists(d, build_kard_path(CURRENT_NAME)) /\ d[build_kard_path(CURRENT_NAME)].k = "link"
  THEN d[build_kard_path(CURRENT_NAME)].text
  ELSE CURRENT_NAME

\* Kard.set_current(kard_name)
set_current(d, kard_name) ==
  IF ~Exists(d, build_kard_path(kard_name)) THEN [d |-> d, err |-> "KardNotFound"]
  ELSE [d |-> Put(unlink(d, build_kard_path(CURRENT_NAME)),
                  build_kard_path(CURRENT_NAME), LinkNode(kard_name)),
        err |-> ""]

\* What the body of the try statement of create gives: the constructor
\* (which loads the environment, computes the meta and calls the setup
\* hooks) and kard.update() raise or do not.  "KeyboardInterrupt" is the
\* user's interrupt at the prompt of ask_input; the others are Exceptions.
CreateOutcomes == {"", "IOError", "PkrException", "KeyboardInterrupt"}
UpdateOutcomes == {"", "OSError"}

\* kard.update(): meta.yml is opened for writing, and the dump is written.
update(d, name, updating) ==
  [d |-> Put(d, build_kard_path(name) \o <<META_FILE>>,
             FileNode(IF updating = "" THEN "meta" ELSE "")),
   err |-> updating]

\* The body of the try statement: kard = cls(name, kard_path, extras), then
\* kard.update().
CreateBody(d, name, creating, updating) ==
  IF creating # "" THEN [d |-> d, err |-> creating] ELSE update(d, name, updating)

\* except Exception:
CreateCaught(err) == err \notin {"", "KeyboardInterrupt"}

\* except Exception: shutil.rmtree(str(kard_path)); raise
CreateExcept(b, name) ==
  IF CreateCaught(b.err) THEN [d |-> rmtree(b.d, build_kard_path(name)), err |-> b.err]
  ELSE b

\* After the try statement: Kard.set_current(kard.name), whatever the
\* keyword arguments are.
CreateCurrent(b, name, kwargs) ==
  IF b.err # "" THEN b ELSE set_current(b.d, name)

\* Kard.create(name, env, driver, extra, features, meta, **kwargs) on the
\* file system d; kwargs holds do_not_set_current.
create(d, name, creating, updating, kwargs) ==
  CreateCurrent(
    CreateExcept(CreateBody(mkdir(mkdir(d, get_kard_root_path), build_kard_path(name)),
                            name, creating, updating),
                 name),
    name, kwargs)

\* The names of the Kards.
KardNames == {"a", "b"}

\* A Kard on disk.
WithKard(d, name) ==
  Put(Put(mkdir(d, get_kard_root_path), build_kard_path(name), DirNode),
      build_kard_path(name) \o <<META_FILE>>, FileNode("meta"))

\* The file systems the user starts with: no Kard, or some Kards, one of
\* them current.
KardRoots ==
  {<<>>}
    \cup {set_current(WithKard(<<>>, n), n).d : n \in KardNames}
    \cup {set_current(WithKard(WithKard(<<>>, "a"), "b"), n).d : n \in KardNames}

InitCurrent ==
  /\ disk \in KardRoots
  /\ templates = <<>>
  /\ context = 0
  /\ heap = <<>>
  /\ source = PyNone
  /\ destination = PyNone
  /\ source0 = PVNone
  /\ ops = <<>>
  /\ hist = <<>>
  /\ raised = FALSE
  /\ envfile = [tree |-> PVEmpty, required |-> <<>>, imports |-> <<>>, overlays |-> <<>>]
  /\ exthook = [op |-> "none", key |-> "", val |-> PVNone]
  /\ metafile = Absent
  /\ kard = NoKard
  /\ given = PVEmpty
  /\ made = <<>>
  /\ NoHooks

\* What a call of Kard.create leaves, c what it gave.
CreatedKard(c, name, option) ==
  /\ disk' = c.d
  /\ raised' = (c.err # "")
  /\ hist' = Append(hist, [name |-> name, option |-> option, before |-> disk,
                           after |-> c.d, err |-> c.err])

\* pkr kard create <name>
KardCreateCurrent ==
  /\ Len(ops) < MaxCalls
  /\ \E name \in KardNames, creating \in CreateOutcomes, updating \in UpdateOutcomes :
       CreatedKard(create(disk, name, creating, updating,
                          [do_not_set_current |-> FALSE]),
                   name, FALSE)
  /\ ops' = Append(ops, "create")
  /\ UNCHANGED <<heap, source, destination, source0, templates, context, hookVars, kardVars>>

\* pkr kard create <name> --do-not-set-current
KardCreateAside ==
  /\ Len(ops) < MaxCalls
  /\ \E name \in KardNames, creating \in CreateOutcomes, updating \in UpdateOutcomes :
       CreatedKard(create(disk, name, creating, updating,
                          [do_not_set_current |-> TRUE]),
                   name, TRUE)
  /\ ops' = Append(ops, "aside")
  /\ UNCHANGED <<heap, source, destination, source0, templates, context, hookVars, kardVars>>

NextCurrent == KardCreateCurrent \/ KardCreateAside

SpecCurrent == InitCurrent /\ [][NextCurrent]_vars

(***************************************************************************)
(* The imports of an environment: env.yml sets the keys j and k and        *)
(* imports x.yml, or x.yml and y.yml, or x.yml which imports y.yml; the    *)
(* program loads env.yml with _load_env_file.                              *)
(***************************************************************************)
StrImportX == StrImport
StrImportY == StrRelPath

\* What the importing file and the imported files hold at the key k.
ImporterVals == {PVInt(1), PVList(<<PVInt(1)>>), D1}
ImportedVals ==
  {Absent, PVInt(2), PVList(<<PVInt(2)>>), PV1("a", PVInt(2)), PV1("b", PVInt(2))}

\* The ways env.yml comes to its imports.
ImportShapes == {"direct", "both", "nested"}

\* A definition file with these values at j and k that imports these names.
DefinitionFile(j, k, names) ==
  PVDict((IF names = <<>> THEN <<>> ELSE <<Item("import", FeatureList(names))>>)
           \o Opt("j", j).items \o Opt("k", k).items)

\* The environment whose env.yml holds j and k, x.yml xj and xk, and y.yml yk.
ImportEnv(j, k, xj, xk, yk, shape) ==
  [tree |-> DefinitionFile(j, k, IF shape = "both" THEN <<StrImportX, StrImportY>>
                                 ELSE <<StrImportX>>),
   required |-> <<>>,
   imports |-> <<[name |-> StrImportX,
                  tree |-> DefinitionFile(xj, xk, IF shape = "nested" THEN <<StrImportY>>
                                                  ELSE <<>>)],
                 [name |-> StrImportY, tree |-> DefinitionFile(Absent, yk, <<>>)]>>,
   overlays |-> <<>>]

ImportEnvs ==
  {ImportEnv(j, k, xj, xk, yk, shape) :
     j \in {Absent, PVInt(1)}, k \in ImporterVals, xj \in {Absent, PVInt(2)},
     xk \in ImportedVals, yk \in ImportedVals, shape \in ImportShapes}

InitImports ==
  /\ envfile \in ImportEnvs
  /\ heap = <<>>
  /\ source = PyNone
  /\ destination = PyNone
  /\ source0 = PVNone
  /\ ops = <<>>
  /\ hist = <<>>
  /\ raised = FALSE
  /\ exthook = [op |-> "none", key |-> "", val |-> PVNone]
  /\ metafile = Absent
  /\ kard = NoKard
  /\ given = Absent
  /\ made = <<>>
  /\ NoHooks
  /\ NoRender

\* What _load_env_file leaves, c what it gave: the mapping it returned.
LoadedFile(c) ==
  /\ heap' = c.h
  /\ destination' = IF c.err THEN PyNone ELSE c.v
  /\ raised' = c.err
  /\ hist' = Append(hist, [err |-> c.err, env |-> IF c.err THEN PVNone ELSE Val(c.h, c.v)])

\* self.env = self._load_env_file(env_file_path)
LoadEnvFile ==
  /\ ops = <<>>
  /\ LoadedFile(load_env_file(heap, envfile.tree, envfile.imports))
  /\ ops' = <<"load">>
  /\ UNCHANGED <<source, source0, envfile, exthook, metafile, kard, given, made, hookVars,
                 renderVars>>

NextImports == LoadEnvFile

SpecImports == InitImports /\ [][NextImports]_vars

(***************************************************************************)
(* The Environment after its construction: the process calls get_meta,     *)
(* get_container and get_requires on it and computes the meta of a Kard    *)
(* from it.  The environment has the containers p and c, c with parent p.  *)
(***************************************************************************)
StrContainerP == PyStr(14)

\* The key of containers a parent's name stands for.
ContainerKey(name) == IF name = StrContainerP THEN "p" ELSE "c"

\* value is falsy: None, an empty mapping or list, False.
Falsy(h, val) ==
  CASE val.k = "ref" -> h[val.v].items = <<>>
    [] val.k = "none" -> TRUE
    [] val.k = "bool" -> val.v = 0
    [] OTHER -> FALSE

\* container = self._containers(template=True)[name] or {}
ContainerOf(h, env, name) ==
  IF Falsy(h, DictGet(h[DictGet(h[env.v], "containers").v], name))
  THEN Alloc(h, EmptyDict)
  ELSE [h |-> h, v |-> DictGet(h[DictGet(h[env.v], "containers").v], name)]

\* return merge(container, parent.copy()), cp the copy.
ContainerMerged(m, cp) == [h |-> m.h, err |-> m.err, v |-> cp]
ContainerCopy(cp, container) == ContainerMerged(merge(cp.h, container, cp.v), cp.v)

\* parent.copy(): a new mapping that holds the values of parent themselves.
ContainerParent(p, container) ==
  IF p.err THEN p ELSE ContainerCopy(Alloc(p.h, p.h[p.v.v]), container)

RECURSIVE get_container(_, _, _)

\* if "parent" in container and container["parent"] is not None
ContainerFound(c, env) ==
  IF DictHas(c.h[c.v.v], "parent") /\ DictGet(c.h[c.v.v], "parent") # PyNone
  THEN ContainerParent(get_container(c.h, env,
                                     ContainerKey(DictGet(c.h[c.v.v], "parent"))),
                       c.v)
  ELSE [h |-> c.h, err |-> FALSE, v |-> c.v]

\* Environment.get_container(name): [h, err, v], v the mapping returned.
get_container(h, env, name) == ContainerFound(ContainerOf(h, env, name), env)

\* self._containers(): the entries of containers that hold something and are no
\* templates.
containers(h, env) ==
  IF Falsy(h, DictGet(h[env.v], "containers")) THEN <<>>
  ELSE SelectSeq(h[DictGet(h[env.v], "containers").v].items,
                 LAMBDA e : /\ ~Falsy(h, e.val)
                            /\ Falsy(h, GetOr(h, e.val, "template", PyBool(0))))

\* ret[c_name] = self.get_container(c_name), c what get_container gave.
AllContainersPut(c, ret, key) ==
  [h |-> IF c.err THEN c.h ELSE SetKey(c.h, ret, key, c.v), err |-> c.err, v |-> ret]

\* The loop of get_container(None) over self._containers().items(); r is
\* [h, err, v], v the mapping ret.
RECURSIVE AllContainers(_, _, _, _)
AllContainers(r, conts, i, env) ==
  IF r.err \/ i > Len(conts) THEN r
  ELSE AllContainers(AllContainersPut(get_container(r.h, env, conts[i].key), r.v,
                                      conts[i].key),
                     conts, i + 1, env)

\* ret = {}
AllContainersNew(a, env) ==
  AllContainers([h |-> a.h, err |-> FALSE, v |-> a.v], containers(a.h, env), 1, env)

\* Environment.get_container(None)
get_containers(h, env) == AllContainersNew(Alloc(h, EmptyDict), env)

\* The items {origin: key, **value} of env.get("requires", {}).
RequiresOf(h, c) ==
  IF ~DictHas(h[c.v], "requires") THEN {}
  ELSE {[origin |-> e.key, value |-> Val(h, e.val)] :
          e \in {h[DictGet(h[c.v], "requires").v].items[i] :
                   i \in 1..Len(h[DictGet(h[c.v], "requires").v].items)}}

\* dst_set.add(HashableDict(value)), c what get_container gave.
RequiresAdd(c, reqs) ==
  [h |-> c.h, err |-> c.err, reqs |-> IF c.err THEN reqs ELSE reqs \cup RequiresOf(c.h, c.v)]

\* for name in containers: env = self.get_container(name)
RECURSIVE RequiresEach(_, _, _, _)
RequiresEach(r, conts, i, env) ==
  IF r.err \/ i > Len(conts) THEN r
  ELSE RequiresEach(RequiresAdd(get_container(r.h, env, conts[i].key), r.reqs),
                    conts, i + 1, env)

\* Environment.get_requires(): [h, err, reqs], reqs the items of the list returned,
\* whose order is that of a set.
get_requires(h, env) ==
  RequiresEach([h |-> h, err |-> FALSE, reqs |-> {}], containers(h, env), 1, env)

\* What the containers p and c hold at the key k and at requires; a list that
\* holds a list cannot be hashed.
ParentVals == {PVInt(1), D1, PVList(<<PVList(<<>>)>>), PVList(<<PVInt(1)>>)}
ChildVals == {Absent, PV1("b", PVInt(2)), PVList(<<PVList(<<>>)>>), PVList(<<PVInt(2)>>)}
ParentRequires == {Absent, PV1("a", PVEmpty)}
ChildRequires == {Absent, PV1("a", PV1("j", PVInt(1)))}

\* A container with these values.
Container(parent, k, requires) ==
  PVDict(Opt("k", k).items \o Opt("parent", parent).items \o Opt("requires", requires).items)

\* The environment file with default_meta m, required_meta r and these containers.
ContainersEnv(m, r, pk, pr, ck, cr) ==
  [tree |-> PVDict(Opt("default_meta", m).items
                     \o <<Item("containers",
                               PVDict(<<Item("c", Container(PS(StrContainerP), ck, cr)),
                                        Item("p", Container(Absent, pk, pr))>>))>>),
   required |-> r, imports |-> <<>>, overlays |-> <<>>]

\* The environments: those whose containers hold the key k, those with a
\* default_meta, with or without a required_meta, and those whose containers hold
\* requires.
ContainersEnvs ==
  {ContainersEnv(Absent, <<>>, pk, Absent, ck, Absent) : pk \in ParentVals, ck \in ChildVals}
    \cup {ContainersEnv(PV1("k", PV1("a", PVInt(1))), r, PVInt(1), Absent, Absent, Absent) :
            r \in {<<>>, <<DefNested("k", <<DefFlat("a")>>)>>}}
    \cup {ContainersEnv(Absent, <<>>, Absent, pr, Absent, cr) :
            pr \in ParentRequires, cr \in ChildRequires}

\* The clean_meta of the Kard: what the user supplied, with env and features.
CleanFeatures == FeatureList(<<StrFeatureE>>)
CleanMetas ==
  {PVDict(<<Item("env", PS(StrEnvName)), Item("features", CleanFeatures)>>
            \o Opt("k", k).items) : k \in {Absent, PV1("a", PVInt(2))}}

\* env = Environment(name, features), e what it gave: the process holds the object.
EnvironmentBuilt(e) ==
  /\ ~e.err
  /\ heap = e.h
  /\ destination = e.env
  /\ kard = [clean_meta |-> PyNone, meta |-> PyNone, env |-> e.env, features |-> e.features]

\* The Environment of the state's environment file, for a copy of the features of
\* clean_meta.
Constructed ==
  Environment(Build(<<>>, CleanFeatures).h, envfile, Build(<<>>, CleanFeatures).v)

InitEnvironment ==
  /\ envfile \in ContainersEnvs
  /\ given \in CleanMetas
  /\ EnvironmentBuilt(Constructed)
  /\ source = PyNone
  /\ source0 = given
  /\ ops = <<>>
  /\ hist = <<>>
  /\ raised = FALSE
  /\ exthook = [op |-> "none", key |-> "", val |-> PVNone]
  /\ metafile = Absent
  /\ made = <<>>
  /\ NoHooks
  /\ NoRender

\* What a call on the Environment leaves: the heap h, whether it raised, and ret the
\* value it returned.
EnvironmentCalled(h, err, op, name, ret) ==
  /\ heap' = h
  /\ raised' = err
  /\ hist' = Append(hist, [op |-> op, name |-> name, err |-> err,
                           ret |-> IF err THEN PVNone ELSE ret])

\* env.get_meta(x.v), x a new mapping.
EnvGetMetaOf(r) ==
  EnvironmentCalled(r.h, r.err, "get_meta", "", IF r.err THEN PVNone ELSE Val(r.h, r.v))

\* env.get_meta(extra), extra a new mapping of what the user supplied.
EnvGetMeta ==
  /\ Len(ops) < MaxCalls
  /\ EnvGetMetaOf(env_get_meta(Build(heap, given).h, destination, envfile.required,
                               Build(heap, given).v))
  /\ ops' = Append(ops, "get_meta")
  /\ UNCHANGED <<source, destination, source0, envfile, exthook, metafile, kard, given, made,
                 hookVars, renderVars>>

EnvGetContainerOf(r, name) ==
  EnvironmentCalled(r.h, r.err, "get_container", name,
                    IF r.err THEN PVNone ELSE Val(r.h, r.v))

\* env.get_container(name), and env.get_container() for every container
EnvGetContainer ==
  /\ Len(ops) < MaxCalls
  /\ \/ \E name \in {"c", "p"} : EnvGetContainerOf(get_container(heap, destination, name), name)
     \/ EnvGetContainerOf(get_containers(heap, destination), "")
  /\ ops' = Append(ops, "get_container")
  /\ UNCHANGED <<source, destination, source0, envfile, exthook, metafile, kard, given, made,
                 hookVars, renderVars>>

EnvGetRequiresOf(r) == EnvironmentCalled(r.h, r.err, "get_requires", "", r.reqs)

\* env.get_requires()
EnvGetRequires ==
  /\ Len(ops) < MaxCalls
  /\ EnvGetRequiresOf(get_requires(heap, destination))
  /\ ops' = Append(ops, "get_requires")
  /\ UNCHANGED <<source, destination, source0, envfile, exthook, metafile, kard, given, made,
                 hookVars, renderVars>>

EnvComputeMetaOf(r) ==
  EnvironmentCalled(r.h, r.err, "compute_meta", "",
                    IF r.err THEN PVNone ELSE Val(r.h, r.meta))

\* self._compute_meta(self.clean_meta) of a Kard that holds the Environment
EnvComputeMeta ==
  /\ Len(ops) < MaxCalls
  /\ EnvComputeMetaOf(compute_meta(Build(heap, given).h, destination, envfile.required,
                                   exthook, Build(heap, given).v))
  /\ ops' = Append(ops, "compute_meta")
  /\ UNCHANGED <<source, destination, source0, envfile, exthook, metafile, kard, given, made,
                 hookVars, renderVars>>

NextEnvironment == EnvGetMeta \/ EnvGetContainer \/ EnvGetRequires \/ EnvComputeMeta

SpecEnvironment == InitEnvironment /\ [][NextEnvironment]_vars

(***************************************************************************)
(* The loading of a definition file, call by call: ops holds the calls of  *)
(* _load_env_file in progress, the innermost last, each [v, names, i,      *)
(* warn]: v the content so far, names the imports it loops over, i the     *)
(* place of the next one and warn the warnings written.                    *)
(***************************************************************************)
\* The calls the interpreter allows in progress at once: more than the definition
\* files, so that no loading that ends by itself comes to it.
MaxFrames == 4

\* content = yaml.safe_load(env_file), default_features added when missing.
ReadFile(h, content) ==
  Build(h, IF "default_features" \in {content.items[i].key : i \in 1..Len(content.items)}
           THEN content
           ELSE PVWith(content, "default_features", PVList(<<>>)))

\* The call that has read b and starts the loop over content.get("import", ()).
Frame(b) ==
  [v |-> b.v,
   names |-> IF DictHas(b.h[b.v.v], "import")
             THEN b.h[DictGet(b.h[b.v.v], "import").v].items
             ELSE <<>>,
   i |-> 1, warn |-> <<>>]

\* The definition files: env.yml imports x, or x and y, and each of x.yml and
\* y.yml imports nothing, the other, or itself.
LoadEnv(k, xk, names, xnames, ynames) ==
  [tree |-> DefinitionFile(Absent, k, names),
   required |-> <<>>,
   imports |-> <<[name |-> StrImportX, tree |-> DefinitionFile(Absent, xk, xnames)],
                 [name |-> StrImportY, tree |-> DefinitionFile(Absent, Absent, ynames)]>>,
   overlays |-> <<>>]

LoadEnvs ==
  {LoadEnv(k, xk, names, xnames, ynames) :
     k \in {Absent, PVInt(1), D1}, xk \in {Absent, PVInt(2)},
     names \in {<<StrImportX>>, <<StrImportX, StrImportY>>},
     xnames \in {<<>>, <<StrImportY>>, <<StrImportX>>},
     ynames \in {<<>>, <<StrImportX>>, <<StrImportY>>}}

InitLoad ==
  /\ envfile \in LoadEnvs
  /\ heap = <<>>
  /\ source = PyNone
  /\ destination = PyNone
  /\ source0 = PVNone
  /\ ops = <<>>
  /\ hist = <<>>
  /\ raised = FALSE
  /\ exthook = [op |-> "none", key |-> "", val |-> PVNone]
  /\ metafile = Absent
  /\ kard = NoKard
  /\ given = Absent
  /\ made = <<>>
  /\ NoHooks
  /\ NoRender

\* A call of _load_env_file begins: b is the content read.
LoadCalled(b) ==
  /\ heap' = b.h
  /\ ops' = Append(ops, Frame(b))
  /\ UNCHANGED <<destination, hist, raised>>

\* The load ends by raising err: every call in progress is left.
LoadRaised(h, err) ==
  /\ heap' = h
  /\ ops' = <<>>
  /\ raised' = TRUE
  /\ hist' = Append(hist, [err |-> err, env |-> PVNone])
  /\ UNCHANGED destination

\* The innermost call has looped over one more import: c is [h, err, v, warn].
LoadLooped(c) ==
  IF c.err THEN LoadRaised(c.h, "TypeError")
  ELSE /\ heap' = c.h
       /\ ops' = [SubSeq(ops, 1, Len(ops) - 2) \o <<ops[Len(ops) - 1]>>
                    EXCEPT ![Len(ops) - 1].v = c.v, ![Len(ops) - 1].i = @ + 1,
                           ![Len(ops) - 1].warn = c.warn]
       /\ UNCHANGED <<destination, hist, raised>>

\* self.env = self._load_env_file(env_file_path)
LoadStart ==
  /\ ops = <<>> /\ hist = <<>>
  /\ LoadCalled(ReadFile(heap, envfile.tree))
  /\ UNCHANGED <<source, source0, envfile, exthook, metafile, kard, given, made, hookVars,
                 renderVars>>

\* imp_data = self._load_env_file(imp_path), for the next import of the innermost
\* call; the interpreter raises RecursionError where it allows no further call.
LoadImport ==
  /\ ops # <<>>
  /\ ops[Len(ops)].i <= Len(ops[Len(ops)].names)
  /\ IF Len(ops) < MaxFrames
     THEN LoadCalled(ReadFile(heap, FileOf(envfile.imports,
                                           ops[Len(ops)].names[ops[Len(ops)].i].val)))
     ELSE LoadRaised(heap, "RecursionError")
  /\ UNCHANGED <<source, source0, envfile, exthook, metafile, kard, given, made, hookVars,
                 renderVars>>

\* return content, the loop of the innermost call over: the first call hands the
\* content to __init__, any other to the loop of its caller, which merges its own
\* content into it.
LoadReturn ==
  /\ ops # <<>>
  /\ ops[Len(ops)].i > Len(ops[Len(ops)].names)
  /\ IF Len(ops) = 1
     THEN /\ destination' = ops[1].v
          /\ ops' = <<>>
          /\ hist' = Append(hist, [err |-> "", env |-> Val(heap, ops[1].v)])
          /\ UNCHANGED <<heap, raised>>
     ELSE LoadLooped(ImportLoaded([h |-> heap, err |-> FALSE, v |-> ops[Len(ops)].v,
                                   warn |-> ops[Len(ops)].warn],
                                  [h |-> heap, err |-> FALSE, v |-> ops[Len(ops) - 1].v,
                                   warn |-> ops[Len(ops) - 1].warn],
                                  envfile.imports,
                                  SubSeq(ops[Len(ops) - 1].names, 1, ops[Len(ops) - 1].i),
                                  ops[Len(ops) - 1].i))
  /\ UNCHANGED <<source, source0, envfile, exthook, metafile, kard, given, made, hookVars,
                 renderVars>>

NextLoad == LoadStart \/ LoadImport \/ LoadReturn

SpecLoad == InitLoad /\ [][NextLoad]_vars

(***************************************************************************)
(* Properties of merge.                                                    *)
(***************************************************************************)
PVKeys(d) == {d.items[i].key : i \in 1..Len(d.items)}
PVGet(d, key) == (CHOOSE e \in {d.items[i] : i \in 1..Len(d.items)} : e.key = key).val
Elems(l) == [i \in 1..Len(l.items) |-> l.items[i].val]

\* The paths (sequences of keys) from mapping x down to its values that are no
\* mappings.
RECURSIVE LeafPaths(_)
LeafPaths(x) ==
  UNION {IF PVGet(x, key).k = "dict"
         THEN {<<key>> \o p : p \in LeafPaths(PVGet(x, key))}
         ELSE {<<key>>} : key \in PVKeys(x)}

\* The value of tree x at path p, Absent when the path leads nowhere.
RECURSIVE AtPath(_, _)
AtPath(x, p) ==
  IF p = <<>> THEN x
  ELSE IF x.k = "dict" /\ Head(p) \in PVKeys(x) THEN AtPath(PVGet(x, Head(p)), Tail(p))
  ELSE Absent

\* The first call was merge(source, destination) and it returned.
FirstCallReturned ==
  /\ Len(ops) >= 1
  /\ ops[1] = "source"
  /\ ~(Len(ops) = 1 /\ raised)

NoRepeat(s) ==
  LET keep == {i \in 1..Len(s) : \A j \in 1..(i - 1) : ~ScalarEq(s[j], s[i])}
      F[i \in 0..Len(s)] ==
        IF i = 0 THEN <<>>
        ELSE IF i \in keep THEN Append(F[i - 1], s[i]) ELSE F[i - 1]
  IN F[Len(s)]

\* The destination's elements in their order, then the source's not already there.
DestinationThenNew(dst, src) ==
  NoRepeat(dst)
    \o NoRepeat(SelectSeq(src, LAMBDA x : \A j \in 1..Len(dst) : ~ScalarEq(dst[j], x)))

AllScalars(s) == \A i \in 1..Len(s) : IsScalarKind(s[i].k)

\* Whether s holds two elements that are equal by value.
HasDuplicate(s) == \E i, j \in 1..Len(s) : i < j /\ PVEq(s[i], s[j])

\* The keys that source and destination both hold as sequences at the first call.
BothSequences ==
  {key \in PVKeys(source0) \cap PVKeys(hist[1]) :
     PVGet(source0, key).k = "list" /\ PVGet(hist[1], key).k = "list"}

\* C7 as stated: for a key present in both arguments as sequences, merge yields the
\* destination's elements in order followed by the new source elements, with no
\* duplicate, and merging the same source again leaves the sequence unchanged.
C7_Original ==
  FirstCallReturned =>
    \A key \in BothSequences :
      /\ ~HasDuplicate(Elems(PVGet(hist[2], key)))
      /\ (Len(ops) >= 2 /\ ops[2] = "source" /\ Len(hist) >= 3)
           => PVGet(hist[3], key) = PVGet(hist[2], key)

\* C7 amended: the same, for sequences that hold only scalars.
C7_ListMergeDedup ==
  FirstCallReturned =>
    \A key \in BothSequences :
      (AllScalars(Elems(PVGet(source0, key))) /\ AllScalars(Elems(PVGet(hist[1], key))))
        => /\ Elems(PVGet(hist[2], key))
                = DestinationThenNew(Elems(PVGet(hist[1], key)),
                                     Elems(PVGet(source0, key)))
           /\ ~HasDuplicate(Elems(PVGet(hist[2], key)))
           /\ (Len(ops) >= 2 /\ ops[2] = "source")
                => (~raised /\ PVGet(hist[3], key) = PVGet(hist[2], key))

\* merge({k: [1, 2]}, {k: [2, 1]}) twice: the result [2, 1] both times.
C7_Witness ==
  /\ Len(ops) = 2
  /\ ops = <<"source", "source">>
  /\ source0 = PV1("k", PVList(<<PVInt(1), PVInt(2)>>))
  /\ ~raised
  /\ "k" \in PVKeys(hist[1])
  /\ PVGet(hist[1], "k") = PVList(<<PVInt(2)>>)
  /\ PVGet(hist[3], "k") = PVList(<<PVInt(2), PVInt(1)>>)

\* Whether every sequence of tree x holds only scalars, no two of them equal.
RECURSIVE PlainSequences(_)
PlainSequences(x) ==
  CASE x.k = "list" -> AllScalars(Elems(x)) /\ ~HasDuplicate(Elems(x))
    [] x.k = "dict" -> \A i \in 1..Len(x.items) : PlainSequences(x.items[i].val)
    [] OTHER -> TRUE

\* C8 as stated: merge(x, copy(x)) equals x for every tree x.
C8_Original == (ops = <<"copy">>) => (~raised /\ PVEq(hist[2], source0))

\* C8 amended: merge(x, copy(x)) equals x for every tree x whose sequences hold
\* only scalars, no two of them equal.
C8_MergeIdempotent ==
  (ops = <<"copy">> /\ PlainSequences(source0)) => (~raised /\ PVEq(hist[2], source0))

\* merge(x, copy(x)) for an x holding a sequence of two scalars and a scalar.
C8_Witness ==
  /\ ops = <<"copy">>
  /\ source0 = PVDict(<<Item("j", PVStr(1)), Item("k", PVList(<<PVInt(2), PVInt(1)>>))>>)
  /\ hist[2] = source0

\* C9: merge never changes source, whatever merge calls into the same destination
\* follow.
C9_SourceUnchanged == Val(heap, source) = source0

(***************************************************************************)
(* Properties of diff.                                                     *)
(***************************************************************************)
BothMappings(x, y) == x.k = "dict" /\ y.k = "dict"

\* Whether mapping c holds, at any depth, a key that mapping b lacks or holds with
\* another value.
RECURSIVE Changed(_, _)
Changed(b, c) ==
  \E key \in PVKeys(c) :
    \/ key \notin PVKeys(b)
    \/ /\ key \in PVKeys(b)
       /\ IF BothMappings(PVGet(b, key), PVGet(c, key))
          THEN Changed(PVGet(b, key), PVGet(c, key))
          ELSE ~PVEq(PVGet(b, key), PVGet(c, key))

\* Whether r is the sub-tree of c made of the keys that b lacks or holds with
\* another value, nested mappings compared key by key.
RECURSIVE IsDiff(_, _, _)
IsDiff(r, b, c) ==
  /\ r.k = "dict"
  /\ PVKeys(r) \subseteq PVKeys(c)
  /\ \A key \in PVKeys(c) :
       IF key \notin PVKeys(b)
       THEN key \in PVKeys(r) /\ PVGet(r, key) = PVGet(c, key)
       ELSE IF BothMappings(PVGet(b, key), PVGet(c, key))
            THEN /\ key \in PVKeys(r) <=> Changed(PVGet(b, key), PVGet(c, key))
                 /\ key \in PVKeys(r)
                      => IsDiff(PVGet(r, key), PVGet(b, key), PVGet(c, key))
            ELSE /\ key \in PVKeys(r) <=> ~PVEq(PVGet(b, key), PVGet(c, key))
                 /\ key \in PVKeys(r) => PVGet(r, key) = PVGet(c, key)

\* C10: diff(baseline, current) returns exactly the sub-tree of current whose keys
\* differ from baseline or are absent from it, recursing into nested mappings.
C10_DiffSubTree == (ops = <<"diff">>) => IsDiff(hist[2], hist[1], source0)

\* diff({j: 1, k: {a: 1}}, {j: 1, k: {a: 2}}) returned {k: {a: 2}}.
C10_Witness ==
  /\ ops = <<"diff">>
  /\ hist[1] = PVDict(<<Item("j", PVInt(1)), Item("k", PV1("a", PVInt(1)))>>)
  /\ source0 = PVDict(<<Item("j", PVInt(1)), Item("k", PV1("a", PVInt(2)))>>)
  /\ hist[2] = PV1("k", PV1("a", PVInt(2)))

\* Baseline b with what current c changed: the keys of c that b lacks or holds with
\* another value have c's value, nested mappings taken key by key, and every other
\* key is as in b.
RECURSIVE Patched(_, _)
Patched(b, c) ==
  PVDict(SelectSeq(
    [i \in 1..Len(KeySeq) |->
       LET key == KeySeq[i]
       IN IF key \in PVKeys(c) /\ key \notin PVKeys(b) THEN Item(key, PVGet(c, key))
          ELSE IF key \in PVKeys(c) /\ key \in PVKeys(b)
          THEN IF BothMappings(PVGet(b, key), PVGet(c, key))
               THEN Item(key, Patched(PVGet(b, key), PVGet(c, key)))
               ELSE IF PVEq(PVGet(b, key), PVGet(c, key)) THEN Item(key, PVGet(b, key))
               ELSE Item(key, PVGet(c, key))
          ELSE IF key \in PVKeys(b) THEN Item(key, PVGet(b, key))
          ELSE Item("", PVNone)],
    LAMBDA e : e.key # ""))

RECURSIVE Settled(_)
Settled(x) ==
  CASE x.k = "list" -> AllScalars(Elems(x)) /\ ~HasDuplicate(Elems(x))
    [] x.k = "dict" -> \A key \in PVKeys(x) : Settled(PVGet(x, key))
    [] OTHER -> TRUE

\* Whether each change from b to c is one that merge carries over: a new key with
\* a settled value, a scalar in the place of another value, or changes of that
\* kind inside a mapping both hold.
RECURSIVE Patchable(_, _)
Patchable(b, c) ==
  \A key \in PVKeys(c) :
    IF key \notin PVKeys(b) THEN Settled(PVGet(c, key))
    ELSE IF BothMappings(PVGet(b, key), PVGet(c, key))
    THEN Patchable(PVGet(b, key), PVGet(c, key))
    ELSE PVEq(PVGet(b, key), PVGet(c, key)) \/ IsScalarKind(PVGet(c, key).k)

DefaultsOf(tree) ==
  IF "default_features" \in PVKeys(tree) THEN Elems(PVGet(tree, "default_features"))
  ELSE <<>>

\* The features the caller supplied: those of the meta file, then those of --features.
CallerSupply(args) ==
  (IF "features" \in PVKeys(args.extra) THEN Elems(PVGet(args.extra, "features"))
   ELSE <<>>) \o Elems(args.features)

\* The features of the imports, then the environment's own.
EnvSupply ==
  (IF envfile.imports = <<>> THEN <<>> ELSE DefaultsOf(envfile.imports[1].tree))
    \o DefaultsOf(envfile.tree)

\* The features of the overlay, when the feature it belongs to is among those of
\* the environment or those of the caller (the sequence caller).
OverlayFor(caller) ==
  IF /\ envfile.overlays # <<>>
     /\ \E i \in 1..Len(EnvSupply \o caller) :
          (EnvSupply \o caller)[i] = PS(envfile.overlays[1].name)
  THEN DefaultsOf(envfile.overlays[1].tree)
  ELSE <<>>

OverlaySupply(args) == OverlayFor(CallerSupply(args))

\* Every feature name supplied to a creation, origin by origin: imports, the
\* environment, the overlay, the meta file, the arguments.
Supplied(args) == EnvSupply \o OverlaySupply(args) \o CallerSupply(args)

\* The features of meta m, as a sequence.
FeaturesOf(m) == Elems(PVGet(m, "features"))

\* C12: every creation succeeds; its resolved features are the names supplied, each
\* once at the place of its first occurrence; and it writes one warning for each
\* repeated occurrence of a name, whatever the origins of the occurrences.
C12_DuplicatesWarned ==
  \A i \in 1..Len(made) :
    made[i].how = "create" =>
      /\ ~made[i].err
      /\ FeaturesOf(made[i].meta) = NoRepeat(Supplied(made[i].args))
      /\ Len(made[i].warn)
           = Len(Supplied(made[i].args)) - Len(NoRepeat(Supplied(made[i].args)))

C14_CreateDeterministic ==
  \A i, j \in 1..Len(made) :
    (made[i].how = "create" /\ made[j].how = "create" /\ made[i].args = made[j].args)
      => /\ made[i].err = made[j].err
         /\ ~made[i].err
              => /\ FeaturesOf(made[i].meta) = FeaturesOf(made[j].meta)
                 /\ made[i].ext = made[j].ext

\* Three creations with the same arguments, each with features e, f, g and the
\* extensions of f and g active, in that order.
C14_Witness ==
  /\ Len(made) = 3
  /\ \A i \in 1..3 :
       /\ made[i].how = "create"
       /\ ~made[i].err
       /\ made[i].args = made[1].args
       /\ FeaturesOf(made[i].meta) = <<PS(StrFeatureE), PS(StrFeatureF), PS(StrFeatureG)>>
       /\ made[i].ext = <<Item("", StrFeatureF), Item("", StrFeatureG)>>

(***************************************************************************)
(* Properties of the required metas.                                       *)
(***************************************************************************)
\* The paths of the keys that definitions defs declare.
RECURSIVE RequiredPaths(_)
RequiredPaths(defs) ==
  UNION {IF defs[i].nested
         THEN {<<defs[i].key>> \o p : p \in RequiredPaths(defs[i].sub)}
         ELSE {<<defs[i].key>>} : i \in 1..Len(defs)}

\* The value the key at path p is to take: the one supplied, else the default, else
\* the answer to the prompt.
RequiredValue(p) ==
  IF AtPath(given, p) # Absent THEN AtPath(given, p)
  ELSE IF AtPath(envfile.tree, <<"default_meta">> \o p) # Absent
  THEN AtPath(envfile.tree, <<"default_meta">> \o p)
  ELSE PS(ask_input)

\* C15: the first get_meta returns, and leaves in the mapping of the supplied values
\* each declared key with the value supplied, else with the default's, else with the
\* answer to the prompt.
C15_RequiredResolved ==
  hist # <<>> =>
    /\ ~hist[1].err
    /\ \A p \in RequiredPaths(envfile.required) : AtPath(hist[1].extra, p) = RequiredValue(p)

\* C16: every later get_meta of the Environment with a new mapping of the values
\* supplied returns too, returns the same mapping as the first and leaves each
\* declared key with the same value as the first.
C16_ResolveTwice ==
  \A i \in 2..Len(hist) :
    ops[i] = "fresh" =>
      /\ ~hist[i].err
      /\ hist[i].meta = hist[1].meta
      /\ \A p \in RequiredPaths(envfile.required) :
           AtPath(hist[i].extra, p) = AtPath(hist[1].extra, p)

(***************************************************************************)
(* Properties of the Kard's meta.                                          *)
(***************************************************************************)
\* Kard.create returned: made[1] is what it computed.
Created == made # <<>> /\ ~made[1].err

\* The paths of the values the user gave; the features are kept aside by
\* _compute_meta and are no part of them.
UserPaths == {p \in LeafPaths(given) : Head(p) # "features"}

IdentifierPaths == {<<"env">>, <<"driver", "name">>, <<"features">>}

\* C3: after a Kard is created or loaded, clean_meta contains only what the user
\* supplied (in extra, or at a prompt) plus the env and driver identifiers; a value
\* that only the extension's setup hook introduced is in meta but not in clean_meta.
C3_CleanMetaUserOnly ==
  \A i \in 1..Len(made) :
    ~made[i].err =>
      \A p \in LeafPaths(made[i].clean) :
        \/ p \in UserPaths \cup IdentifierPaths
        \/ AtPath(made[i].clean, p) = PS(ask_input)

\* C4: computing the meta again from the clean_meta of an already-computed Kard yields
\* the same meta and the same clean_meta: nothing accumulates.
C4_RecomputeSame ==
  \A i \in 1..(Len(made) - 1) :
    (~made[i].err /\ made[i + 1].from = made[i].clean)
      => /\ ~made[i + 1].err
         /\ made[i + 1].clean = made[i].clean
         /\ made[i + 1].meta = made[i].meta

\* C5: a Kard created, persisted by update and then loaded by name has the clean_meta
\* and the meta of the created one.
C5_LoadEqualsCreated ==
  (Len(made) >= 2 /\ Created /\ made[2].how = "load")
    => /\ ~made[2].err
       /\ made[2].clean = made[1].clean
       /\ made[2].meta = made[1].meta

\* Whether every element of sequence u is an element of sequence m.
AllIn(u, m) ==
  /\ m.k = "list"
  /\ \A i \in 1..Len(u.items) : \E j \in 1..Len(m.items) : m.items[j].val = u.items[i].val

\* What the final meta holds for the user's value u at path p: the string of a tag
\* (both drivers are Docker drivers), the resolved path of a relative src_path, u.
UserValue(p, u) ==
  IF p = <<"tag">> THEN PS(Str(u))
  ELSE IF p = <<"src_path">> /\ ~IsAbsolute(u) THEN PS(Resolved(u))
  ELSE u

HookRuns ==
  \E i \in 1..Len(PVGet(envfile.tree, "default_features").items) :
    PVGet(envfile.tree, "default_features").items[i].val = PS(StrFeatureF)

UserKeys ==
  {Head(p) : p \in UserPaths}
    \cup {key \in PVKeys(made[1].clean) : PVGet(made[1].clean, key) = PS(ask_input)}

\* The keys the model's drivers and the Kard itself fill in.
DriverKeys == {"project_name", "real_kard_path", "src_path", "tag", "driver", "features"}

\* C2: for a key the user did not supply, the final meta holds the value of highest
\* precedence among its origins: the extension's hook over the driver over the
\* environment's default.
C2_Precedence ==
  Created =>
    /\ (HookRuns /\ exthook.op = "set" /\ exthook.key \notin UserKeys)
         => AtPath(made[1].computed, <<exthook.key>>) = exthook.val
    /\ (AtPath(made[1].computed, <<"driver", "name">>) = PS(StrCompose)
          /\ "real_kard_path" \notin UserKeys)
         => AtPath(made[1].computed, <<"real_kard_path">>) = PS(StrKardPath)
    /\ \A key \in PVKeys(AtPath(envfile.tree, <<"default_meta">>)) :
         (key \notin UserKeys \cup DriverKeys /\ ~(HookRuns /\ exthook.key = key))
           => AtPath(made[1].computed, <<key>>)
                = AtPath(envfile.tree, <<"default_meta", key>>)

(***************************************************************************)
(* Properties of the rendering.                                            *)
(***************************************************************************)
\* The files of disk d under path p.
FilesUnder(d, p) == {q \in DOMAIN d : Under(q, p) /\ d[q].k = "file"}

\* Whether an exclusion pattern of instruction t matches path p.
ExclusionMatches(t, p) ==
  \E j \in 1..Len(t.excluded_paths) : fnmatch(p, t.excluded_paths[j])

\* C17: after a make, no file an instruction wrote to the output tree has a
\* source path that one of the instruction's exclusion patterns matches,
\* whether the source of the instruction is a directory that holds the
\* file, a pattern that expands to it, or the file itself.
C17_ExcludedAbsent ==
  \A i \in 1..Len(hist) : \A w \in hist[i].log :
    is_file(hist[i].after, w.dst) => ~ExclusionMatches(w.by, w.src)

\* The errors of rendering: a source that is missing, a destination that
\* cannot be written.
RenderingErrors == {"FileNotFoundError", "FileExistsError", "IsADirectoryError"}

\* The directories a pattern source expands to or a plain source names.
SourceRoots(d, t) ==
  IF t.source.star = "" THEN {t.source.names}
  ELSE {p \in DOMAIN d : Parent(p) = t.source.names
                          /\ (t.source.star = "*" \/ EndsTemplate(Name(p)))}

\* The files instruction t covers on disk d: its source, or under it.
Covered(d, t) ==
  {f \in DOMAIN d : d[f].k = "file"
                     /\ \E s \in SourceRoots(d, t) : f = s \/ Under(f, s)}

\* Whether an exclusion of t matches f or a directory that holds it.
Excluded(t, f) == \E i \in 1..Len(f) : ExclusionMatches(t, SubSeq(f, 1, i))

\* Whether f is to be rendered by t.
Rendered(t, f) == t.gen_template /\ EndsTemplate(Name(f))

\* destination / (f relative to origin), the suffix removed when f is
\* rendered; for a source that is its own origin, also the file of that
\* name in the destination.
Destinations(t, f) ==
  LET base == kard_path \o <<t.subfolder>> \o t.destination
      at == IF f = t.origin.names THEN base ELSE base \o relative_to(f, t.origin.names)
      own == IF f = t.origin.names THEN base \o <<Name(f)>> ELSE at
  IN  IF Rendered(t, f) THEN {remove_ext(at), remove_ext(own)} ELSE {at, own}

\* What the output holds for f: its body, rendered against the context or
\* verbatim.
OutputBody(d, t, f) == IF Rendered(t, f) THEN process_template(d[f], context) ELSE d[f]

\* C18: after a make that met no rendering error, every source file an
\* instruction covers and does not exclude is in the output at
\* destination / (path relative to origin): with the template flag set and a
\* name ending in .template, without the suffix and rendered against the
\* context; otherwise verbatim under its own name.
C18_FilesWritten ==
  \A i \in 1..Len(hist) :
    hist[i].err \notin RenderingErrors =>
      \A t \in get_templates(templates) : \A f \in Covered(hist[i].before, t) :
        \/ Excluded(t, f)
        \/ \E p \in Destinations(t, f) :
             /\ is_file(hist[i].after, p)
             /\ hist[i].after[p] = OutputBody(hist[i].before, t, f)

\* The output tree: what the disk holds under the Kard's path.
OutputTree(d) == [p \in {q \in DOMAIN d : Under(q, kard_path)} |-> d[p]]

\* C19: two makes of the Kard, one right after the other, with the same
\* context and the same source tree, neither raising, leave the same output
\* tree, when both reset and when the second runs without reset.
C19_MakeTwice ==
  \A i \in 1..(Len(hist) - 1) :
    (/\ hist[i + 1].at = hist[i].at + 1
     /\ hist[i].err = "" /\ hist[i + 1].err = ""
     /\ (hist[i].reset \/ ~hist[i + 1].reset))
    => OutputTree(hist[i + 1].after) = OutputTree(hist[i].after)

\* The subfolders the render instructions name, as paths.
NamedFolders == {kard_path \o <<t.subfolder>> : t \in get_templates(templates)}

\* The files a make wrote under folder.
WrittenUnder(m, folder) == {w.dst : w \in {x \in m.log : Under(x.dst, folder)}}

C23_MergeAbsent ==
  (ops = <<"absent">>) =>
    /\ ~hist[2].err
    /\ source0 = PVNone => hist[2].ret = hist[1]
    /\ (source0 # PVNone /\ hist[1] = PVNone) => hist[2].ret = source0

\* type(value).__name__
TypeName(pv) ==
  CASE pv.k = "none" -> "NoneType"
    [] OTHER -> pv.k

\* The text of the warning for a value of destination overwritten by one of
\* source.
Mismatch(d, s) == <<"type mismatch: overriding a", TypeName(d), "with a", TypeName(s)>>

\* The keys merge overwrites: in both, the source's value no mapping and no
\* list.
Overwritten(s, d) ==
  {key \in PVKeys(s) \cap PVKeys(d) : PVGet(s, key).k \notin {"dict", "list"}}

\* C24: a merge handed a mapping for the warnings completes; for each key it
\* overwrites whose value in destination has another type than in source
\* the mapping holds the text of the mismatch, for the keys whose types
\* agree it holds nothing, and destination holds the source's value.
C24_TypeWarnings ==
  (ops = <<"warnings">>) =>
    /\ ~hist[2].err
    /\ \A key \in Overwritten(source0, hist[1]) :
         /\ PVGet(hist[2].ret, key) = PVGet(source0, key)
         /\ IF TypeName(PVGet(hist[1], key)) # TypeName(PVGet(source0, key))
              THEN /\ key \in PVKeys(hist[2].warnings)
                   /\ PVGet(hist[2].warnings, key)
                        = Mismatch(PVGet(hist[1], key), PVGet(source0, key))
              ELSE key \notin PVKeys(hist[2].warnings)

(***************************************************************************)
(* Properties of the dispatch of hooks.                                    *)
(***************************************************************************)
\* The exception the call of a hook raises, "" when it returns: a hook
\* under timeout that is slow raises TimeoutError.
Raises(hook) ==
  CASE hook.outcome = "returns" -> ""
    [] hook.outcome = "slow" -> IF hook.decorated THEN "TimeoutError" ELSE ""
    [] OTHER -> hook.outcome

\* C21: when a hook raises, a timeout as TimeoutError, the dispatch raises
\* that exception to its caller, and the hook that raised is the last one
\* called.
C21_HookRaises ==
  \A n \in 1..Len(hist) : \A i \in 1..Len(hist[n].calls) :
    Raises(ExtNamed(extmods, hist[n].calls[i]).hook) # ""
      => /\ hist[n].err = Raises(ExtNamed(extmods, hist[n].calls[i]).hook)
         /\ i = Len(hist[n].calls)

\* The name of the i-th feature of the Extensions object.
FeatName(i) == PyStr(given.items[i].val.v)

\* Whether the i-th feature is the first of its name and has an extension
\* that implements the hook.
Wanted(i) ==
  /\ \A j \in 1..(i - 1) : FeatName(j) # FeatName(i)
  /\ \E m \in 1..Len(extmods) :
       extmods[m].name = FeatName(i) /\ extmods[m].hook.impl = "own"

\* The extensions to call, in the order of the features.
ExpectedCalls ==
  LET idx == SelectSeq([i \in 1..Len(given.items) |-> i], Wanted)
  IN  [k \in 1..Len(idx) |-> FeatName(idx[k])]

\* The number of the calls of a dispatch that returned.
Returned(r) == IF r.err = "" THEN Len(r.calls) ELSE Len(r.calls) - 1

\* C25: a dispatch calls the hooks of the features that have an extension
\* which implements the hook, one after another in the order of the feature
\* list, up to one that raises; the outputs hold one entry for each hook
\* that returned and none for the others; without features nothing is
\* called.
C25_DispatchOrder ==
  \A n \in 1..Len(hist) :
    ~hist[n].late =>
      /\ Len(hist[n].calls) <= Len(ExpectedCalls)
      /\ hist[n].calls = SubSeq(ExpectedCalls, 1, Len(hist[n].calls))
      /\ hist[n].err = "" => hist[n].calls = ExpectedCalls
      /\ hist[n].outputs = [i \in 1..Returned(hist[n]) |-> [of |-> hist[n].calls[i]]]

\* A dispatch called both extensions, in the order of the features and not
\* in the order list_all found them.
C25_Witness ==
  \E n \in 1..Len(hist) :
    /\ hist[n].err = ""
    /\ hist[n].calls = <<extmods[2].name, extmods[1].name>>
    /\ Len(hist[n].outputs) = Len(hist[n].calls)

\* C29: no TimeoutError is raised after a dispatch, in code outside the
\* hooks: a hook under timeout leaves no alarm pending.
C29_NoAlarmLeft == \A n \in 1..Len(hist) : ~hist[n].late

(***************************************************************************)
(* Properties of the current Kard.                                         *)
(***************************************************************************)
\* Whether the Kard of this name can be loaded from the file system d.
Usable(d, name) ==
  is_dir(d, build_kard_path(name)) /\ is_file(d, build_kard_path(name) \o <<META_FILE>>)

\* C22: a create with do-not-set-current that succeeds leaves the current
\* link naming the Kard it named before, and the new Kard is there to be
\* used by its name; a create without the option that succeeds makes the new
\* Kard the current one.
C22_CurrentKept ==
  \A n \in 1..Len(hist) :
    hist[n].err = "" =>
      /\ Usable(hist[n].after, hist[n].name)
      /\ hist[n].option => get_current(hist[n].after) = get_current(hist[n].before)
      /\ ~hist[n].option => get_current(hist[n].after) = hist[n].name

\* C28: a create that raises leaves no directory of that name, and the
\* current link as it was before the call.
C28_FailedCreate ==
  \A n \in 1..Len(hist) :
    hist[n].err # "" =>
      /\ ~Exists(hist[n].after, build_kard_path(hist[n].name))
      /\ get_current(hist[n].after) = get_current(hist[n].before)

(***************************************************************************)
(* Properties of the imports.                                              *)
(***************************************************************************)
\* Whether one of the imported files holds value x at path p.
Imported(p, x) ==
  \E i \in 1..Len(envfile.imports) : PVEq(AtPath(envfile.imports[i].tree, p), x)

\* C26: the mapping loaded from a file with imports holds, at every key the
\* importing file sets, the value the importing file gives it; what it holds
\* at another key is the value of an imported file (default_features, which
\* the loader adds, apart).
C26_ImporterWins ==
  \A n \in 1..Len(hist) :
    /\ ~hist[n].err
    /\ \A p \in LeafPaths(envfile.tree) :
         PVEq(AtPath(hist[n].env, p), AtPath(envfile.tree, p))
    /\ \A p \in LeafPaths(hist[n].env) \ LeafPaths(envfile.tree) :
         \/ p = <<"default_features">>
         \/ AtPath(envfile.tree, p) = Absent /\ Imported(p, AtPath(hist[n].env, p))

(***************************************************************************)
(* Properties of the Environment after its construction.                   *)
(***************************************************************************)
\* The calls of get_container for one name give equal mappings.
SameContainers ==
  \A m, n \in 1..Len(hist) :
    /\ hist[m].op = "get_container" /\ hist[n].op = "get_container"
    /\ hist[m].name = hist[n].name
    /\ ~hist[m].err /\ ~hist[n].err
    => hist[m].ret = hist[n].ret

\* The value the mapping d of heap h holds at key, Absent without the key.
ValAt(h, d, key) == IF DictHas(h[d.v], key) THEN Val(h, DictGet(h[d.v], key)) ELSE Absent

\* The mapping d of heap h holds what the mapping e of heap g holds.
SameEntries(h, d, g, e, keys) == \A key \in keys : ValAt(h, d, key) = ValAt(g, e, key)

\* The mapping of the Environment is the one its construction c gave.
EnvironmentIs(c) ==
  /\ SameEntries(heap, kard.env, c.h, c.env, {"default_features", "default_meta"})
  /\ SameEntries(heap, DictGet(heap[kard.env.v], "containers"),
                 c.h, DictGet(c.h[c.env.v], "containers"), {"c", "p"})
  /\ Val(heap, kard.features) = Val(c.h, c.features)

\* C27: whatever is called on the Environment after its construction, its
\* mapping and its list of features are those of the construction, and the
\* calls of get_container for one name give equal results.
C27_EnvironmentKept == EnvironmentIs(Constructed) /\ SameContainers

(***************************************************************************)
(* Properties of the loading, call by call.                                *)
(***************************************************************************)
\* The calls of _load_env_file went on until the interpreter allowed no further
\* one.
RecursionExceeded == \E n \in 1..Len(hist) : hist[n].err = "RecursionError"

\* C30: the loading of the environment's definition file ends by itself, whatever
\* the files import, each other included: its calls of _load_env_file return, or
\* raise an error of the merging, and never go on until the interpreter allows no
\* further call.
C30_LoadTerminates == ~RecursionExceeded
====
